---- MODULE Spec2Model ----
(***************************************************************************)
(* A model of the survey terminal user-interface engine: the Text and Mesh *)
(* mutates (survey/_mutates.py), the controls that drive them              *)
(* (survey/_controls.py), the widget invocation loop (survey/_widgets.py), *)
(* and the reference-counted and locked resources of survey/_core.         *)
(***************************************************************************)
EXTENDS Integers, Sequences, FiniteSets, TLC

(***************************************************************************)
(* Bounds of the model.                                                    *)
(***************************************************************************)
MaxRunes == 4
MaxLines == 3
MaxSize == 2
MaxRow == 1
MaxCol == 3
MaxTiles == 3
MaxSearch == 2
MaxInput == 2
MaxThreads == 2
MaxDepth == 2
MaxInterfaces == 2
MaxHeld == 2
MaxY == 3
MaxX == 2
MaxLost == 2
MaxCalls == 3

MaxText == 3

MaxReads == 3

MaxArgs == 2

MaxSteps == 2

MaxWide == 1

MaxRegions == 3

MaxRegionLines == 2

Runes == {"a", "X"}

VARIABLES
    text,   \* Text mutate: [lines |-> Seq(Seq(rune)), point |-> <<y, x>>] (zero-offset point)
    tlast,  \* the last Text operation: [op, size, ok]
    mesh,   \* Mesh mutate: [tiles, vision, point, search, cache]
    mcfg,   \* Mesh constructor arguments: [rigid, clean, create, scout, score]
    mlast,  \* the last Mesh operation: [op, ok, err, origin]
    wcfg,   \* constructor arguments of the widget given to start()
    widget, \* the widget besides its mutate: [product, focus, kids]
    loop,   \* start(): [pc, result, raw, hidden, raw0, hidden0, cleared]
    ev,     \* how the last event was handled
    store,  \* a Text and the State its get_state returned, as list objects
    atom,   \* an Atomic and the threads that enter and leave it
    term,   \* the printers of the terminal, the locks they take, what they do
    rend,   \* the Renders of the terminal: [memory, last]
    feed,   \* a Source: [info, sent, calls], the token last read and its callbacks
    hand,   \* a Handle: [event, enter, exc, calls], its last invoke
    scan,   \* a parse: [op, code, args, private, from, reads, out, sent, mode, at]
    past,   \* the calls made on the Text: [text, op, runes, size, ok, err] each
    place,  \* the last call of a Render: [op, r, learn, limit, sizes, cur, point, wide, out]
    form    \* the last Line._format: [op, tiles, index, lines, point]

textVars == <<text, tlast>>

meshVars == <<mesh, mcfg, mlast>>

loopVars == <<wcfg, widget, loop, ev>>

auxVars == <<store, atom, term, rend, feed, hand, scan, past, place, form>>

vars == <<textVars, meshVars, loopVars, auxVars>>

notTextVars == <<meshVars, loopVars, auxVars>>

notMeshVars == <<textVars, loopVars, auxVars>>

(***************************************************************************)
(* Sequence helpers (Python list semantics).                               *)
(***************************************************************************)
Min(a, b) == IF a <= b THEN a ELSE b

Max(a, b) == IF a >= b THEN a ELSE b

\* s[:n]
Take(s, n) == SubSeq(s, 1, Min(n, Len(s)))

\* s[n:]
Drop(s, n) == SubSeq(s, n + 1, Len(s))

RECURSIVE SumLen(_)
SumLen(lines) ==
    IF lines = <<>> THEN 0 ELSE Len(Head(lines)) + SumLen(Tail(lines))

(***************************************************************************)
(* survey/_helpers.py                                                      *)
(***************************************************************************)
\* a flat index in which a line boundary counts for nothing
text_point_to_index_unbroken(lines, cy, cx) == SumLen(Take(lines, cy)) + cx

text_point_to_index(lines, cy, cx) ==
    SumLen(Take(lines, cy)) + Len(Take(lines, cy)) + cx

RECURSIVE text_index_to_point_loop(_, _, _, _)
text_index_to_point_loop(rest, ci, cy, cx) ==
    IF rest = <<>> THEN <<cy, cx>>
    ELSE LET ci2 == ci - (Len(Head(rest)) + 1)
         IN  IF ci2 < 0 THEN <<cy, cx>>
             ELSE text_index_to_point_loop(Tail(rest), ci2, cy + 1, ci2)

text_index_to_point(lines, ci) == text_index_to_point_loop(lines, ci, 0, ci)

(***************************************************************************)
(* survey/_mutates.py: Text.  Every operation maps a Text state to a       *)
(* result [ok, lines, point]; ok = FALSE stands for a raised Error, and    *)
(* the lines and point of the result are what the mutate holds afterwards. *)
(***************************************************************************)
TextValue(lines, point) == [lines |-> lines, point |-> point]

TextOk(lines, point) == [ok |-> TRUE, err |-> "none", lines |-> lines, point |-> point]

TextErr(t, name) == [ok |-> FALSE, err |-> name, lines |-> t.lines, point |-> t.point]

\* a flat length in which a line boundary counts for nothing
TextMaxIndex_unbroken(lines) == SumLen(lines)

TextMaxIndex(lines) == SumLen(lines) + Len(lines) - 1

\* an insert that also moves the cursor past the runes
Text_insert_moved(t, runes) ==
    LET cur_line == t.lines[t.point[1] + 1]
    IN  TextOk([t.lines EXCEPT ![t.point[1] + 1] =
                    Take(cur_line, t.point[2]) \o runes \o Drop(cur_line, t.point[2])],
               <<t.point[1], t.point[2] + Len(runes)>>)

\* cur_line[cur_x:cur_x] = runes
Text_insert(t, runes) ==
    LET cur_y == t.point[1]
        cur_x == t.point[2]
        cur_line == t.lines[cur_y + 1]
        new_line == Take(cur_line, cur_x) \o runes \o Drop(cur_line, cur_x)
    IN  TextOk([t.lines EXCEPT ![cur_y + 1] = new_line], t.point)

\* _move_y without the clamp of the column to the length of the new line
Text_move_y_unclamped(t, size) ==
    LET new_y == t.point[1] + size
        max_y == Len(t.lines) - 1
    IN  IF ~(0 <= new_y /\ new_y <= max_y)
        THEN TextErr(t, "insufficient_y_space")
        ELSE TextOk(t.lines, <<new_y, t.point[2]>>)

Text_move_y(t, size) ==
    LET cur_y == t.point[1]
        cur_x == t.point[2]
        new_y == cur_y + size
        max_y == Len(t.lines) - 1
    IN  IF ~(0 <= new_y /\ new_y <= max_y)
        THEN TextErr(t, "insufficient_y_space")
        ELSE LET may_x == Len(t.lines[new_y + 1])
             IN  TextOk(t.lines, <<new_y, IF cur_x > may_x THEN may_x ELSE cur_x>>)

Text_move_x(t, size) ==
    LET cur_i == text_point_to_index(t.lines, t.point[1], t.point[2])
        max_i == TextMaxIndex(t.lines)
        new_i == cur_i + size
    IN  IF ~(0 <= new_i /\ new_i <= max_i)
        THEN TextErr(t, "insufficient_x_space")
        ELSE TextOk(t.lines, text_index_to_point(t.lines, new_i))

\* a delete that takes the runes out of the current line only
Text_delete_inline(t, size) ==
    LET cur_line == t.lines[t.point[1] + 1]
    IN  IF ~(text_point_to_index(t.lines, t.point[1], t.point[2]) + size
                 <= TextMaxIndex(t.lines))
        THEN TextErr(t, "insufficient_x_space")
        ELSE TextOk([t.lines EXCEPT ![t.point[1] + 1] =
                        Take(cur_line, t.point[2]) \o Drop(cur_line, t.point[2] + size)],
                    t.point)

\* size >= 0
Text_delete(t, size) ==
    LET cur_y == t.point[1]
        cur_x == t.point[2]
        cur_line == t.lines[cur_y + 1]
        cur_i == text_point_to_index(t.lines, cur_y, cur_x)
        max_i == TextMaxIndex(t.lines)
        new_i == cur_i + size
    IN  IF ~(new_i <= max_i)
        THEN TextErr(t, "insufficient_x_space")
        ELSE LET new_p == text_index_to_point(t.lines, new_i)
                 new_y == new_p[1]
             IN  IF cur_y # new_y
                 THEN LET mrg_line == t.lines[new_y + 1]
                          new_x == new_p[2] + Len(cur_line)
                          ext_line == cur_line \o mrg_line
                          fin_line == Take(ext_line, cur_x) \o Drop(ext_line, new_x)
                      IN  TextOk(Take(t.lines, cur_y) \o <<fin_line>> \o Drop(t.lines, new_y + 1),
                                 t.point)
                 ELSE LET new_x == new_p[2]
                          fin_line == Take(cur_line, cur_x) \o Drop(cur_line, new_x)
                      IN  TextOk([t.lines EXCEPT ![cur_y + 1] = fin_line], t.point)

Text_newline(t) ==
    LET cur_y == t.point[1]
        cur_x == t.point[2]
        cur_line == t.lines[cur_y + 1]
        new_line == Drop(cur_line, cur_x)
        psh_y == cur_y + 1
    IN  TextOk(Take(t.lines, cur_y) \o <<Take(cur_line, cur_x)>> \o <<new_line>>
                   \o Drop(t.lines, psh_y),
               <<psh_y, 0>>)

(***************************************************************************)
(* The Text mutate driven by arbitrary calls of its public operations.     *)
(***************************************************************************)
PointValid(lines, point) ==
    /\ 0 <= point[1] /\ point[1] < Len(lines)
    /\ 0 <= point[2] /\ point[2] <= Len(lines[point[1] + 1])

TextInitSet ==
    { TextValue(<< <<>> >>, <<0, 0>>),
      TextValue(<< <<"a", "X">> >>, <<0, 1>>),
      TextValue(<< <<"a", "a", "X">> >>, <<0, 3>>),
      TextValue(<< <<"a">>, <<>>, <<"X", "a">> >>, <<2, 1>>) }

TextNoLast == [op |-> "init", size |-> 0, ok |-> TRUE]

IdleText == TextValue(<< <<>> >>, <<0, 0>>)

TextApply(name, size, r) ==
    /\ text' = TextValue(r.lines, r.point)
    /\ tlast' = [op |-> name, size |-> size, ok |-> r.ok]
    /\ UNCHANGED notTextVars

TextInsert ==
    \E rune \in Runes :
        /\ SumLen(text.lines) < MaxRunes
        /\ TextApply("insert", 1, Text_insert(text, <<rune>>))

TextMoveX ==
    \E size \in (-MaxSize)..MaxSize :
        TextApply("move_x", size, Text_move_x(text, size))

TextMoveY ==
    \E size \in (-MaxSize)..MaxSize :
        TextApply("move_y", size, Text_move_y(text, size))

TextDelete ==
    \E size \in 0..MaxSize :
        TextApply("delete", size, Text_delete(text, size))

TextNewline ==
    /\ Len(text.lines) < MaxLines
    /\ TextApply("newline", 0, Text_newline(text))

TextNext ==
    \/ TextInsert
    \/ TextMoveX
    \/ TextMoveY
    \/ TextDelete
    \/ TextNewline


(***************************************************************************)
(* survey/_helpers.py: directional choice among spots.  Directions are the *)
(* four used by the controls: 0 (right), 180 (left), 90 (up, rows grow)    *)
(* and -90 (down).  A score is distance_to_line + distance_to_point, that  *)
(* is an integer plus the square root of an integer; two scores are        *)
(* compared exactly.                                                       *)
(***************************************************************************)
Abs(n) == IF n < 0 THEN -n ELSE n

Directions == {0, 180, 90, -90}

Horizontal(direction) == direction % 180 = 0

\* a + sqrt(p) < b + sqrt(q)
ScoreLess(a, p, b, q) ==
    LET d == b - a
        m == p - q - d * d
        n == q - p - d * d
    IN  IF d = 0 THEN p < q
        ELSE IF d > 0 THEN (m < 0 \/ m * m < 4 * d * d * q)
        ELSE (n > 0 /\ n * n > 4 * d * d * p)

\* a check that lets every other spot through, whatever its direction
check_direction_any(origin, direction, target) == target # origin

\* abs(degrees(atan2(dy, dx)) - direction) < 90, for target # origin
check_direction(origin, direction, target) ==
    LET dy == target[1] - origin[1]
        dx == target[2] - origin[2]
    IN  /\ target # origin
        /\ CASE direction = 0   -> dx > 0
             [] direction = 90  -> dy > 0
             [] direction = -90 -> dy < 0
             [] OTHER           -> dx < 0 /\ dy >= 0

\* distance to the line through origin with slope tan(direction % 180)
get_point_distance_to_line(origin, direction, target) ==
    IF Horizontal(direction) THEN Abs(target[1] - origin[1])
    ELSE Abs(target[2] - origin[2])

\* the square of get_point_distance_to_point
PointDistanceSquared(origin, target) ==
    (target[1] - origin[1]) * (target[1] - origin[1])
        + (target[2] - origin[2]) * (target[2] - origin[2])

\* get_score(x) < get_score(y)
GetScoreLess(origin, direction, ignore_point, x, y) ==
    LET lx == get_point_distance_to_line(origin, direction, x)
        ly == get_point_distance_to_line(origin, direction, y)
    IN  ScoreLess(IF ignore_point THEN -lx ELSE lx, PointDistanceSquared(origin, x),
                  IF ignore_point THEN -ly ELSE ly, PointDistanceSquared(origin, y))

\* The spots decide(targets, key = get_score, default = origin) can return,
\* decide being min or max.  Among spots of exactly equal score Python returns
\* the first in the iteration order of the dictionary (on a vertical line,
\* where the slope is tan(pi / 2), the one the rounding of the line distance
\* favours); the model allows each of them.
get_point_directional(decide, origin, direction, targets, ignore_point) ==
    LET cand == {t \in targets : check_direction(origin, direction, t)}
        Better(x, y) == IF decide = "min"
                        THEN GetScoreLess(origin, direction, ignore_point, x, y)
                        ELSE GetScoreLess(origin, direction, ignore_point, y, x)
    IN  IF cand = {} THEN {origin}
        ELSE {t \in cand : \A u \in cand : ~Better(u, t)}

\* the eight spots at radius 1
get_point_neighbors(origin) ==
    {<<origin[1] + i, origin[2] + j>> : i \in {-1, 0, 1}, j \in {-1, 0, 1}} \ {origin}

get_point_directional_next(origin, direction) ==
    get_point_directional("min", origin, direction, get_point_neighbors(origin), FALSE)

reverse_direction(direction) ==
    LET d == (direction % 360) - 180
    IN  IF d > -180 THEN d ELSE d + 360

(***************************************************************************)
(* survey/_searches.py and the compaction of survey/_helpers.py.           *)
(***************************************************************************)
Lower(rune) == IF rune = "X" THEN "x" ELSE rune

None == <<>>

\* list.index: the first position (zero-offset) of rune in line, or -1.
\* A marked position holds "#" and matches no rune.
FirstIndex(line, rune) ==
    IF \E i \in 1..Len(line) : line[i] = rune
    THEN (CHOOSE i \in 1..Len(line) : line[i] = rune /\ \A j \in 1..(i - 1) : line[j] # rune) - 1
    ELSE -1

RECURSIVE fuzzy_loop(_, _, _, _, _)
fuzzy_loop(may_line, may_index, cur_line, score, density) ==
    IF may_index >= Len(may_line) THEN <<score, density>>
    ELSE LET cur_index == FirstIndex(cur_line, may_line[may_index + 1])
         IN  IF cur_index < 0 THEN None
             ELSE fuzzy_loop(may_line, may_index + 1,
                             [cur_line EXCEPT ![cur_index + 1] = "#"],
                             score + 1, density - Abs(may_index - cur_index))

\* fuzzy(argument, tile): (score, density), or None when a rune is missing
fuzzy(argument, tile_line) ==
    fuzzy_loop([i \in 1..Len(argument) |-> Lower(argument[i])], 0,
               [i \in 1..Len(tile_line) |-> Lower(tile_line[i])], 0, 0)

\* tuple comparison of (score, spot) assets, score = (count, density)
AssetLess(x, y) ==
    LET kx == <<x[1][1], x[1][2], x[2][1], x[2][2]>>
        ky == <<y[1][1], y[1][2], y[2][1], y[2][2]>>
    IN  \E i \in 1..4 : kx[i] < ky[i] /\ \A j \in 1..(i - 1) : kx[j] = ky[j]

\* sorted(assets, reverse = True)
RECURSIVE SortedReverse(_)
SortedReverse(assets) ==
    IF assets = {} THEN <<>>
    ELSE LET top == CHOOSE x \in assets : \A y \in assets : ~AssetLess(x, y)
         IN  <<top>> \o SortedReverse(assets \ {top})

\* the distinct values of spot[axis] in order of first appearance
RECURSIVE BucketKeys(_, _)
BucketKeys(spots, seen) ==
    IF spots = <<>> THEN seen
    ELSE IF \E i \in 1..Len(seen) : seen[i] = Head(spots)[1]
         THEN BucketKeys(Tail(spots), seen)
         ELSE BucketKeys(Tail(spots), Append(seen, Head(spots)[1]))

IndexOf(seq, value) == CHOOSE i \in 1..Len(seq) : seq[i] = value

\* a squeeze that gives every spot a row of its own, in the order given
squeeze_spots_ranked(spots) == [k \in 1..Len(spots) |-> <<spots[k], <<k - 1, 0>>>>]

\* squeeze_spots(0, spots): pairs (cur_spot, new_spot), bucket by bucket
squeeze_spots(spots) ==
    LET keys == BucketKeys(spots, <<>>)
        Bucket(a) == SelectSeq(spots, LAMBDA q : q[1] = a)
        RECURSIVE Walk(_)
        Walk(k) ==
            IF k > Len(keys) THEN <<>>
            ELSE LET b == Bucket(keys[k])
                 IN  [o \in 1..Len(b) |-> <<b[o], <<k - 1, o - 1>>>>] \o Walk(k + 1)
    IN  Walk(1)

(***************************************************************************)
(* survey/_mutates.py: Mesh.  tiles is the set of the spots that hold a    *)
(* tile (the tile at a spot is TileLine(spot)); vision is the set of the   *)
(* pairs <<visible spot, real spot>> of the dictionary.                    *)
(***************************************************************************)
\* the runes a tile sketches, which the search scores
TileLine(spot) ==
    IF spot[2] = 0 THEN <<"a">>
    ELSE IF spot[2] % 2 = 1 THEN <<"X", "a">>
    ELSE <<"X">>

HasKey(dict, key) == \E e \in dict : e[1] = key

Lookup(dict, key) == (CHOOSE e \in dict : e[1] = key)[2]

Identity(spots) == {<<q, q>> : q \in spots}

Keys(dict) == {e[1] : e \in dict}

Values(dict) == {e[2] : e \in dict}

MeshOk(m) == [ok |-> TRUE, err |-> "none", m |-> m]

MeshErr(m, name) == [ok |-> FALSE, err |-> name, m |-> m]

search_line(m) == m.search.lines[m.search.point[1] + 1]

\* the creator: absent, or a function of the spot that may decline
Creates(cfg, spot) ==
    CASE cfg.create = "all"  -> TRUE
      [] cfg.create = "row0" -> spot[1] = 0
      [] OTHER               -> FALSE

Scout(cfg, spot) == cfg.scout => spot # <<0, 1>>

Mesh_get_state(m) ==
    [tiles |-> m.tiles, cursor |-> m.point, search |-> m.search, vision |-> m.vision]

Mesh_set_state(m, state) ==
    [m EXCEPT !.tiles = state.tiles, !.point = state.cursor,
              !.search = state.search, !.vision = state.vision]

\* [ok, err, m, tile]: tile tells whether a tile is returned
Mesh_insert(m, cfg, spot) ==
    IF search_line(m) # <<>> THEN MeshErr(m, "searching") @@ [tile |-> FALSE]
    ELSE IF spot \in m.tiles THEN MeshOk(m) @@ [tile |-> TRUE]
    ELSE IF cfg.create = "none" THEN MeshErr(m, "TypeError") @@ [tile |-> FALSE]
    ELSE LET tile == Creates(cfg, spot)
             m1 == IF cfg.clean THEN [m EXCEPT !.tiles = {}, !.vision = {}] ELSE m
             m2 == IF tile
                   THEN [m1 EXCEPT !.tiles = m1.tiles \cup {spot},
                                   !.vision = {e \in m1.vision : e[1] # spot}
                                                  \cup {<<spot, spot>>}]
                   ELSE m1
         IN  MeshOk(m2) @@ [tile |-> tile]

Mesh_delete(m, spot) ==
    IF search_line(m) # <<>> THEN MeshErr(m, "searching")
    ELSE IF spot \notin m.tiles THEN MeshOk(m)
    ELSE MeshOk([m EXCEPT !.tiles = m.tiles \ {spot},
                          !.vision = {e \in m.vision : e[1] # spot}])

\* the set of results of _move(direction)
Mesh_move(m, cfg, direction) ==
    LET old_spot == m.point
        tries == search_line(m) = <<>> /\ cfg.create # "none"
        new_spot == CHOOSE q \in get_point_directional_next(old_spot, direction) : TRUE
        inserts == tries /\ new_spot \notin m.tiles
        ins == Mesh_insert(m, cfg, new_spot)
        m1 == IF inserts THEN ins.m ELSE m
    IN  IF inserts /\ ins.tile
        THEN {MeshOk([m1 EXCEPT !.point = new_spot])}
        ELSE LET may_spots == {q \in Keys(m1.vision) : Scout(cfg, q)}
                 fin_spots == get_point_directional("min", old_spot, direction, may_spots, FALSE)
             IN  UNION {
                     IF fin_spot = old_spot
                     THEN IF cfg.rigid
                          THEN {MeshErr(m1, "insufficient_space")}
                          ELSE {MeshOk([m1 EXCEPT !.point = far_spot]) :
                                   far_spot \in get_point_directional(
                                       "max", old_spot, reverse_direction(direction),
                                       may_spots, TRUE)}
                     ELSE {MeshOk([m1 EXCEPT !.point = fin_spot])}
                     : fin_spot \in fin_spots}

\* [ok, err, m, point]
Mesh_search_execute_setup(m, cfg, argument) ==
    LET m1 == IF m.cache = None THEN [m EXCEPT !.cache = m.point] ELSE m
        assets == {<<fuzzy(argument, TileLine(q)), q>> :
                       q \in {u \in m1.tiles : fuzzy(argument, TileLine(u)) # None}}
        sorted == SortedReverse(assets)
        old_spots == [i \in 1..Len(sorted) |-> sorted[i][2]]
        combos == squeeze_spots(old_spots)
        vision == {<<combos[i][2], combos[i][1]>> : i \in 1..Len(combos)}
    IN  IF assets = {} THEN MeshErr(m1, "invalid_search_argument") @@ [point |-> None]
        ELSE IF {old_spots[i] : i \in 1..Len(old_spots)} = Values(m1.vision)
        THEN MeshErr(m1, "inconsequential_search_argument") @@ [point |-> None]
        ELSE MeshOk([m1 EXCEPT !.vision = vision]) @@ [point |-> combos[1][2]]

\* a reset that leaves the vision as the filter left it
Mesh_search_execute_reset_keep(m) ==
    MeshOk([m EXCEPT !.cache = None]) @@ [point |-> m.cache]

Mesh_search_execute_reset(m) ==
    MeshOk([m EXCEPT !.vision = Identity(m.tiles), !.cache = None]) @@ [point |-> m.cache]

\* a _search_execute whose except Error does not set the state back
Mesh_search_execute_unrestored(m, cfg, act) ==
    IF ~cfg.score THEN MeshOk(m)
    ELSE IF ~act.ok THEN MeshErr(m, act.err)
    ELSE LET m1 == [m EXCEPT !.search = TextValue(act.lines, act.point)]
             argument == search_line(m1)
             r == IF argument # <<>>
                  THEN Mesh_search_execute_setup(m1, cfg, argument)
                  ELSE Mesh_search_execute_reset(m1)
         IN  IF ~r.ok THEN MeshErr(r.m, r.err)
             ELSE MeshOk([r.m EXCEPT !.point = r.point])

\* act is the result of the function applied to the search mutate
Mesh_search_execute(m, cfg, act) ==
    IF ~cfg.score THEN MeshOk(m)
    ELSE IF ~act.ok THEN MeshErr(m, act.err)
    ELSE LET state == Mesh_get_state(m)
             m1 == [m EXCEPT !.search = TextValue(act.lines, act.point)]
             argument == search_line(m1)
             r == IF argument # <<>>
                  THEN Mesh_search_execute_setup(m1, cfg, argument)
                  ELSE Mesh_search_execute_reset(m1)
         IN  IF ~r.ok THEN MeshErr(Mesh_set_state(r.m, state), r.err)
             ELSE MeshOk([r.m EXCEPT !.point = r.point])

Mesh_search_insert_act(t, runes) ==
    LET r == Text_insert(t, runes)
    IN  Text_move_x(TextValue(r.lines, r.point), Len(runes))

Mesh_search_insert(m, cfg, runes) ==
    Mesh_search_execute(m, cfg, Mesh_search_insert_act(m.search, runes))

Mesh_search_delete_act(t, size) ==
    LET r == Text_move_x(t, -size)
    IN  IF ~r.ok THEN r ELSE Text_delete(TextValue(r.lines, r.point), size)

Mesh_search_delete(m, cfg, size) ==
    Mesh_search_execute(m, cfg, Mesh_search_delete_act(m.search, size))

\* Mesh.__init__, for arguments with which construction does not raise
Mesh_init(cfg, tiles, point) ==
    Mesh_insert([tiles |-> tiles, vision |-> Identity(tiles), point |-> point,
                 search |-> TextValue(<< <<>> >>, <<0, 0>>), cache |-> None],
                cfg, point).m

(***************************************************************************)
(* The Mesh mutate driven by arbitrary calls of its public operations.     *)
(***************************************************************************)
Grid == (0..MaxRow) \X (0..MaxCol)

MeshConfigs ==
    [rigid : BOOLEAN, clean : BOOLEAN, create : {"none", "row0", "all"},
     scout : {FALSE}, score : {TRUE}]
    \cup {[rigid |-> FALSE, clean |-> FALSE, create |-> "none", scout |-> TRUE, score |-> TRUE],
          [rigid |-> TRUE, clean |-> FALSE, create |-> "none", scout |-> FALSE, score |-> FALSE]}

\* constructor arguments (tiles, point): the point is a tile or can be created
MeshLayouts ==
    { << {<<0, 0>>, <<0, 2>>}, <<0, 0>> >>,
      << {<<0, 1>>, <<1, 0>>, <<1, 2>>}, <<0, 1>> >>,
      << {<<0, 3>>, <<1, 1>>}, <<0, 0>> >>,
      << {<<0, 0>>, <<0, 2>>, <<1, 0>>, <<1, 1>>}, <<0, 0>> >>,
      << {}, <<0, 0>> >> }

\* origin: when kept, and while a search argument is set, the point the
\* cursor had just before the call that set the argument
MeshNoLast ==
    [op |-> "init", ok |-> TRUE, err |-> "none", origin |-> [kept |-> FALSE, point |-> None]]

IdleMeshConfig ==
    [rigid |-> FALSE, clean |-> FALSE, create |-> "all", scout |-> FALSE, score |-> TRUE]

IdleMesh == Mesh_init(IdleMeshConfig, {}, <<0, 0>>)

MeshApply(name, r) ==
    /\ mesh' = r.m
    /\ mlast' = [op |-> name, ok |-> r.ok, err |-> r.err,
                 origin |-> IF ~mlast.origin.kept \/ (search_line(r.m) # <<>> /\ search_line(mesh) # <<>>)
                            THEN mlast.origin
                            ELSE [kept |-> TRUE,
                                  point |-> IF search_line(r.m) = <<>> THEN None
                                            ELSE mesh.point]]
    /\ UNCHANGED <<mcfg, notMeshVars>>

MeshInsert ==
    \E spot \in Grid :
        /\ spot \in mesh.tiles \/ Cardinality(mesh.tiles) < MaxTiles \/ mcfg.clean
        /\ MeshApply("insert", Mesh_insert(mesh, mcfg, spot))

MeshDelete ==
    \E spot \in Grid :
        MeshApply("delete", Mesh_delete(mesh, spot))

MeshMove ==
    \E direction \in Directions :
        /\ \A new_spot \in get_point_directional_next(mesh.point, direction) :
              \/ mcfg.create = "none"
              \/ new_spot \in mesh.tiles
              \/ new_spot \in Grid /\ (Cardinality(mesh.tiles) < MaxTiles \/ mcfg.clean)
        /\ \E r \in Mesh_move(mesh, mcfg, direction) :
              MeshApply("move", r)

MeshSearchInsert ==
    \E rune \in Runes :
        /\ Len(search_line(mesh)) < MaxSearch
        /\ MeshApply("search_insert", Mesh_search_insert(mesh, mcfg, <<rune>>))

MeshSearchDelete ==
    \E size \in 1..MaxSize :
        MeshApply("search_delete", Mesh_search_delete(mesh, mcfg, size))

MeshNext ==
    \/ MeshInsert
    \/ MeshDelete
    \/ MeshMove
    \/ MeshSearchInsert
    \/ MeshSearchDelete

(***************************************************************************)
(* survey/_core/_helpers.py: Atomic, a counter [size, held] whose enter    *)
(* function acquires the resource and whose leave function releases it.    *)
(***************************************************************************)
\* _deduce(function, step, limit); acquires tells which function it is given
\* a _deduce that calls its function whatever the size
Atomic_calls_always(size, limit) == TRUE

\* if not size > limit and function
Atomic_calls(size, limit) == ~(size > limit)

Atomic_deduce(atomic, acquires, step, limit) ==
    LET size == atomic.size + step
    IN  [size |-> size,
         held |-> IF Atomic_calls(size, limit) THEN acquires ELSE atomic.held]

Atomic_enter(atomic) == Atomic_deduce(atomic, TRUE, 1, 1)

\* a leave that calls its function one level too early
Atomic_leave_early(atomic) == Atomic_deduce(atomic, FALSE, -1, 1)

Atomic_leave(atomic) == Atomic_deduce(atomic, FALSE, -1, 0)

\* ctxmethod: with get(self): function(...); the context is left however
\* the function ends
\* a wrapper that leaves the context only when the function returns
ctxmethod_exit_on_return(atomic, raised) ==
    IF raised THEN atomic ELSE Atomic_leave(atomic)

ctxmethod_exit(atomic, raised) == Atomic_leave(atomic)

(***************************************************************************)
(* survey/_widgets.py: the values widgets resolve to.                      *)
(***************************************************************************)
KeyRunes == {"a", "1"}

Events ==
    {"insert", "arrow_left", "arrow_right", "arrow_up", "arrow_down",
     "delete_left", "delete_right", "escape", "indent", "enter"}

NoValue == [kind |-> "none", runes |-> <<>>, number |-> 0]

StrValue(runes) == [kind |-> "str", runes |-> runes, number |-> 0]

IntValue(number) == [kind |-> "int", runes |-> <<>>, number |-> number]

\* the outcome of a call: the exception that leaves it ("none" when it
\* returns) and the widget afterwards
Out(exc, w) == [exc |-> exc, w |-> w]

\* linesep.join(lines)
RECURSIVE join_lines(_)
join_lines(lines) ==
    IF Len(lines) = 1 THEN lines[1]
    ELSE lines[1] \o <<"\n">> \o join_lines(Tail(lines))

IsDigit(rune) == rune = "1"

RECURSIVE ToInt(_)
ToInt(runes) ==
    IF runes = <<>> THEN 0
    ELSE 10 * ToInt(SubSeq(runes, 1, Len(runes) - 1)) + 1

\* Numeric._transform_int: [exc, value]
transform_int(runes) ==
    IF runes # <<>> /\ \A i \in 1..Len(runes) : IsDigit(runes[i])
    THEN [exc |-> "none", value |-> IntValue(ToInt(runes))]
    ELSE [exc |-> "Abort", value |-> NoValue]

\* self._mutate.cur_spot[axis] of a list along axis 0: [exc, value]
BaseList_produce(m) ==
    IF HasKey(m.vision, m.point)
    THEN [exc |-> "none", value |-> IntValue(Lookup(m.vision, m.point)[1])]
    ELSE [exc |-> "Error", value |-> NoValue]

\* _produce of the widget: Input, Numeric or BaseList
Widget_produce(cfg, w) ==
    IF cfg.kind = "mesh" THEN BaseList_produce(w.mesh)
    ELSE IF cfg.numeric THEN transform_int(join_lines(w.text.lines))
    ELSE [exc |-> "none", value |-> StrValue(join_lines(w.text.lines))]

\* Widget._resolve: the memoized product, or a new one
Widget_resolve(cfg, w) ==
    IF w.product # NoValue THEN [exc |-> "none", value |-> w.product]
    ELSE Widget_produce(cfg, w)

\* the validate callback: TRUE when it returns, FALSE when it raises Abort
Accepts(cfg, value) ==
    CASE cfg.validate = "check" /\ value.kind = "str" -> value.runes # <<>>
      [] cfg.validate = "check" /\ value.kind = "int" -> value.number > 0
      [] OTHER -> TRUE

\* Widget._invoke_validate; checked records that validate accepted the value
Widget_invoke_validate(cfg, w) ==
    IF cfg.validate = "none" THEN Out("none", w)
    ELSE LET p == IF w.product = NoValue THEN Widget_produce(cfg, w)
                  ELSE [exc |-> "none", value |-> w.product]
         IN  IF p.exc # "none" THEN Out(p.exc, w)
             ELSE IF Accepts(cfg, p.value)
             THEN Out("none", [w EXCEPT !.product = p.value, !.checked = TRUE])
             ELSE Out("Abort", [w EXCEPT !.product = NoValue])

(***************************************************************************)
(* survey/_controls.py over a Text and over a Mesh: the set of the         *)
(* outcomes [exc, m] of the control of an event.                           *)
(***************************************************************************)
ErrorClass(r) ==
    IF r.ok THEN "none"
    ELSE IF r.err = "TypeError" THEN "Error" ELSE "MutateError"

TextOut(r) == [exc |-> ErrorClass(r), m |-> TextValue(r.lines, r.point)]

done(lines, point) ==
    /\ point[1] = Len(lines) - 1
    /\ Len(lines) > 2
    /\ lines[Len(lines)] = <<>> /\ lines[Len(lines) - 1] = <<>>

text_insert(t, rune) ==
    LET r == Text_insert(t, <<rune>>)
    IN  TextOut(Text_move_x(TextValue(r.lines, r.point), 1))

text_delete_left(t) ==
    LET r == Text_move_x(t, -1)
    IN  IF ~r.ok THEN TextOut(r) ELSE TextOut(Text_delete(TextValue(r.lines, r.point), 1))

\* an enter control that inserts a newline wherever the cursor is
text_newline_always(t) == TextOut(Text_newline(t))

text_newline(t) ==
    IF done(t.lines, t.point)
    THEN LET lines == SubSeq(t.lines, 1, Len(t.lines) - 2)
         IN  [exc |-> "Terminate",
              m |-> TextValue(lines, <<Len(lines) - 1, Len(lines[Len(lines)])>>)]
    ELSE TextOut(Text_newline(t))

TextControls ==
    {"insert", "arrow_left", "arrow_right", "arrow_up", "arrow_down",
     "delete_left", "delete_right", "enter"}

text_control(event, rune, t) ==
    CASE event = "insert"       -> text_insert(t, rune)
      [] event = "arrow_left"   -> TextOut(Text_move_x(t, -1))
      [] event = "arrow_right"  -> TextOut(Text_move_x(t, 1))
      [] event = "arrow_up"     -> TextOut(Text_move_y(t, -1))
      [] event = "arrow_down"   -> TextOut(Text_move_y(t, 1))
      [] event = "delete_left"  -> text_delete_left(t)
      [] event = "delete_right" -> TextOut(Text_delete(t, 1))
      [] OTHER                  -> text_newline(t)

MeshOut(r) == [exc |-> ErrorClass(r), m |-> r.m]

MeshControls ==
    {"insert", "arrow_left", "arrow_right", "arrow_up", "arrow_down",
     "delete_left", "enter"}

\* the controls of a BaseList: those of a BaseMesh, arrow_up and arrow_down
\* replaced by mesh_move_up_reverse and mesh_move_down_reverse
mesh_control(mc, event, rune, m) ==
    CASE event = "arrow_left"   -> {MeshOut(r) : r \in Mesh_move(m, mc, 180)}
      [] event = "arrow_right"  -> {MeshOut(r) : r \in Mesh_move(m, mc, 0)}
      [] event = "arrow_up"     -> {MeshOut(r) : r \in Mesh_move(m, mc, -90)}
      [] event = "arrow_down"   -> {MeshOut(r) : r \in Mesh_move(m, mc, 90)}
      [] event = "insert"       -> {MeshOut(Mesh_search_insert(m, mc, <<rune>>))}
      [] event = "delete_left"  -> {MeshOut(Mesh_search_delete(m, mc, 1))}
      [] OTHER                  -> {[exc |-> "Terminate", m |-> m]}

(***************************************************************************)
(* survey/_handle.py and survey/_widgets.py: the invocation of a widget.   *)
(* A widget is the record w = [text, mesh, product, focus, kids, checked]; *)
(* cfg holds its constructor arguments.  Every operator gives the set of   *)
(* the outcomes the call can have.                                         *)
(***************************************************************************)
\* what the user callback can do at a dispatch: return, or raise
HookOutcomes(cfg) ==
    IF cfg.hook THEN {"none", "HandleAbort", "Abort", "Terminate", "Error"}
    ELSE {"none"}

\* Handle._dispatch(EventType.enter, ...) of a BaseText: the user callback,
\* then the handle whose enter control raises Terminate on a single line
Handle_dispatch_enter(cfg, event, hook) ==
    IF hook # "none" THEN hook
    ELSE IF cfg.kind = "text" /\ ~cfg.multi /\ event = "enter" THEN "Terminate"
    ELSE "none"

Controls(cfg) == IF cfg.kind = "mesh" THEN MeshControls ELSE TextControls

\* control.function(mutate, info)
control_function(cfg, w, event, rune) ==
    IF cfg.kind = "mesh"
    THEN {Out(c.exc, [w EXCEPT !.mesh = c.m]) :
              c \in mesh_control(cfg.mesh, event, rune, w.mesh)}
    ELSE {Out(c.exc, [w EXCEPT !.text = c.m]) : c \in {text_control(event, rune, w.text)}}

\* an invoke that runs the control although the enter hook raised Abort
Handle_invoke_calls_unvetoed(cfg, w, event, rune, enter, leave) ==
    IF event \notin Controls(cfg) THEN {Out("none", w) @@ [calls |-> <<>>]}
    ELSE LET e == Handle_dispatch_enter(cfg, event, enter)
         IN  IF e \notin {"none", "HandleAbort"}
             THEN {Out(e, w) @@ [calls |-> <<"enter">>]}
             ELSE {IF c.exc # "none" THEN c @@ [calls |-> <<"enter", "function">>]
                   ELSE Out(leave, c.w) @@ [calls |-> <<"enter", "function", "leave">>] :
                       c \in control_function(cfg, w, event, rune)}

\* Handle.invoke: [exc, w, calls], calls being the calls it made, of the
\* hook ("enter", "leave") and of control.function, in their order
Handle_invoke_calls(cfg, w, event, rune, enter, leave) ==
    IF event \notin Controls(cfg) THEN {Out("none", w) @@ [calls |-> <<>>]}
    ELSE LET e == Handle_dispatch_enter(cfg, event, enter)
         IN  IF e = "HandleAbort" THEN {Out("none", w) @@ [calls |-> <<"enter">>]}
             ELSE IF e # "none" THEN {Out(e, w) @@ [calls |-> <<"enter">>]}
             ELSE {IF c.exc # "none" THEN c @@ [calls |-> <<"enter", "function">>]
                   ELSE Out(leave, c.w) @@ [calls |-> <<"enter", "function", "leave">>] :
                       c \in control_function(cfg, w, event, rune)}

Handle_invoke(cfg, w, event, rune, enter, leave) ==
    {Out(h.exc, h.w) : h \in Handle_invoke_calls(cfg, w, event, rune, enter, leave)}

\* except Terminate: self._invoke_validate(); raise
Widget_invoke_except_Terminate(cfg, w) ==
    LET v == Widget_invoke_validate(cfg, w)
    IN  IF v.exc = "none" THEN Out("Terminate", v.w) ELSE v

\* Widget._invoke (no delegate)
Widget__invoke(cfg, w, event, rune, enter, leave) ==
    {IF h.exc = "Terminate" THEN Widget_invoke_except_Terminate(cfg, h.w) ELSE h :
         h \in Handle_invoke(cfg, w, event, rune, enter, leave)}

\* invoke of a tile, an Input(): [exc, m]
Tile_invoke(event, rune, t) ==
    IF event \notin TextControls THEN [exc |-> "none", m |-> t]
    ELSE IF event = "enter" THEN [exc |-> "Terminate", m |-> t]
    ELSE text_control(event, rune, t)

\* tile.invoke of a tile that is an Input(multi = True, validate = ...): the
\* Widget.invoke of a BaseText without callback, [exc, m]
Kid_out(r) == [exc |-> r.exc, m |-> r.w.text]

Kid_invoke(event, rune, t) ==
    Kid_out(CHOOSE r \in Widget__invoke(
                [kind |-> "text", multi |-> TRUE, numeric |-> FALSE, validate |-> "check",
                 escapable |-> FALSE, hook |-> FALSE, focus |-> "nil"],
                [text |-> t, product |-> NoValue, checked |-> FALSE],
                event, rune, "none", "none") : TRUE)

\* tile.invoke(*args, **kwargs), the tile being what the list was given
BaseMesh_tile_invoke(cfg, event, rune, t) ==
    IF cfg.tile = "multi" THEN Kid_invoke(event, rune, t)
    ELSE Tile_invoke(event, rune, t)

\* self._focus when it is a bool, self._focus(event) when it is callable
Focus(cfg, w, event) ==
    CASE cfg.focus = "bool" -> w.focus
      [] cfg.focus = "all"  -> TRUE
      [] cfg.focus = "edit" -> event \in {"insert", "delete_left"}
      [] OTHER              -> FALSE

\* an _invoke_focus that raises the Terminate of the tile whatever the focus
BaseMesh_invoke_focus_raise(cfg, w, event, rune) ==
    IF ~(HasKey(w.mesh.vision, w.mesh.point)
         /\ Lookup(w.mesh.vision, w.mesh.point) \in w.mesh.tiles)
    THEN Out("Error", w)
    ELSE LET spot == Lookup(w.mesh.vision, w.mesh.point)
             k == Tile_invoke(event, rune, w.kids[spot])
         IN  Out(k.exc, [w EXCEPT !.kids[spot] = k.m])

\* _invoke_focus once tile.invoke has given k: the tile is as the invoke left
\* it; on a Terminate a focusable list toggles its focus (_handle_focus) and
\* returns when the focus is then off
BaseMesh_invoke_focus_except(cfg, w, spot, k) ==
    IF k.exc # "Terminate" THEN Out(k.exc, [w EXCEPT !.kids[spot] = k.m])
    ELSE IF cfg.focus # "bool" THEN Out("Terminate", [w EXCEPT !.kids[spot] = k.m])
    ELSE IF w.focus THEN Out("none", [w EXCEPT !.kids[spot] = k.m, !.focus = FALSE])
    ELSE Out("Terminate", [w EXCEPT !.kids[spot] = k.m, !.focus = TRUE])

BaseMesh_invoke_focus(cfg, w, event, rune) ==
    IF ~(HasKey(w.mesh.vision, w.mesh.point)
         /\ Lookup(w.mesh.vision, w.mesh.point) \in w.mesh.tiles)
    THEN Out("Error", w)
    ELSE BaseMesh_invoke_focus_except(
             cfg, w, Lookup(w.mesh.vision, w.mesh.point),
             BaseMesh_tile_invoke(cfg, event, rune,
                                  w.kids[Lookup(w.mesh.vision, w.mesh.point)]))

BaseMesh__invoke(cfg, w, event, rune, enter, leave) ==
    IF Focus(cfg, w, event) THEN {BaseMesh_invoke_focus(cfg, w, event, rune)}
    ELSE IF cfg.focus = "bool" /\ event = "indent"
    THEN {Out("none", [w EXCEPT !.focus = ~w.focus])}
    ELSE Widget__invoke(cfg, w, event, rune, enter, leave)

Widget_invoke(cfg, w, event, rune, enter, leave) ==
    IF cfg.escapable /\ event = "escape" THEN {Out("Escape", w)}
    ELSE IF cfg.kind = "mesh" THEN BaseMesh__invoke(cfg, w, event, rune, enter, leave)
    ELSE Widget__invoke(cfg, w, event, rune, enter, leave)

(***************************************************************************)
(* survey/_widgets.py: start().                                            *)
(***************************************************************************)
\* widget.mutate.get_state()
Mutate_get_state(cfg, w) ==
    IF cfg.kind = "mesh" THEN Mesh_get_state(w.mesh)
    ELSE TextValue(w.text.lines, w.text.point)

\* widget.mutate.set_state(state)
Mutate_set_state(cfg, w, state) ==
    IF cfg.kind = "mesh" THEN [w EXCEPT !.mesh = Mesh_set_state(w.mesh, state)]
    ELSE [w EXCEPT !.text = state]

\* an except Abort that does not set the state back
invoke_except_Abort_keep(cfg, w, memory) == w

\* except Abort: widget.mutate.set_state(memory)
invoke_except_Abort(cfg, w, memory) == Mutate_set_state(cfg, w, memory)

\* an invoke of _start without its except _mutates.Error
start_invoke_unhandled(cfg, w, event, rune, enter, leave) ==
    LET memory == Mutate_get_state(cfg, w)
        Handled(r) ==
            LET res == Widget_resolve(cfg, r.w)
                exc == IF r.exc = "Terminate" /\ res.exc # "none" THEN res.exc ELSE r.exc
                base == [out |-> exc, w |-> r.w, result |-> NoValue, exc |-> r.exc,
                         caught |-> exc, rang |-> FALSE,
                         dirty |-> Mutate_get_state(cfg, r.w) # memory]
            IN  CASE exc = "none" -> base
                  [] exc = "Terminate" -> [base EXCEPT !.result = res.value]
                  [] exc = "Abort" ->
                         [base EXCEPT !.out = "none", !.rang = TRUE,
                                      !.w = invoke_except_Abort(cfg, r.w, memory)]
                  [] OTHER -> [base EXCEPT !.caught = "none"]
    IN  {Handled(r) : r \in Widget_invoke(cfg, w, event, rune, enter, leave)}

\* the invoke of _start: out is the exception that leaves it
start_invoke(cfg, w, event, rune, enter, leave) ==
    LET memory == Mutate_get_state(cfg, w)
        Handled(r) ==
            LET res == Widget_resolve(cfg, r.w)
                exc == IF r.exc = "Terminate" /\ res.exc # "none" THEN res.exc ELSE r.exc
                base == [out |-> exc, w |-> r.w, result |-> NoValue, exc |-> r.exc,
                         caught |-> exc, rang |-> FALSE,
                         dirty |-> Mutate_get_state(cfg, r.w) # memory]
            IN  CASE exc = "none" -> base
                  [] exc = "Terminate" -> [base EXCEPT !.result = res.value]
                  [] exc = "MutateError" -> [base EXCEPT !.out = "SkipDraw", !.rang = TRUE]
                  [] exc = "Abort" ->
                         [base EXCEPT !.out = "none", !.rang = TRUE,
                                      !.w = invoke_except_Abort(cfg, r.w, memory)]
                  [] OTHER -> [base EXCEPT !.caught = "none"]
    IN  {Handled(r) : r \in Widget_invoke(cfg, w, event, rune, enter, leave)}

\* a Handle._start without its except Terminate
Handle_start_raise(out) ==
    IF out \in {"none", "SkipDraw"} THEN "listening" ELSE "failing"

\* what becomes of the loop when the callback ends with out: Console._start
\* returns on SkipDraw, Handle._start passes on Terminate (try:
\* source.listen() except Terminate: pass), anything else leaves it
Handle_start(out) ==
    CASE out \in {"none", "SkipDraw"} -> "listening"
      [] out = "Terminate" -> "terminated"
      [] OTHER -> "failing"

\* Screen._print: under the hidden cursor
Screen_print(hidden) == ctxmethod_exit(Atomic_enter(hidden), FALSE)

(***************************************************************************)
(* start(widget) driven by arbitrary events.                               *)
(***************************************************************************)
TextWidget(multi, numeric, validate, escapable, hook) ==
    [kind |-> "text", multi |-> multi, numeric |-> numeric, validate |-> validate,
     escapable |-> escapable, hook |-> hook, focus |-> "nil",
     mesh |-> IdleMeshConfig, tile |-> "input"]

ListWidget(focus, validate, hook, rigid, score) ==
    [kind |-> "mesh", multi |-> FALSE, numeric |-> FALSE, validate |-> validate,
     escapable |-> TRUE, hook |-> hook, focus |-> focus,
     mesh |-> [rigid |-> rigid, clean |-> FALSE, create |-> "none", scout |-> FALSE,
               score |-> score],
     tile |-> "input"]

\* Input, Numeric and BaseList widgets as a caller can construct them
WidgetConfigs ==
    { TextWidget(FALSE, FALSE, "none", FALSE, FALSE),
      TextWidget(FALSE, FALSE, "check", TRUE, FALSE),
      TextWidget(TRUE, FALSE, "check", FALSE, FALSE),
      TextWidget(FALSE, TRUE, "none", FALSE, FALSE),
      TextWidget(FALSE, FALSE, "check", FALSE, TRUE),
      ListWidget("nil", "check", FALSE, TRUE, TRUE),
      ListWidget("bool", "check", FALSE, FALSE, FALSE),
      ListWidget("all", "check", FALSE, FALSE, FALSE),
      ListWidget("edit", "none", TRUE, TRUE, FALSE),
      ListWidget("nil", "check", TRUE, TRUE, TRUE) }

\* the tiles of the list, each an Input()
ListTiles == {<<0, 0>>, <<1, 0>>}

IdleWidgetConfig == TextWidget(FALSE, FALSE, "none", FALSE, FALSE)

IdleWidget ==
    [product |-> NoValue, focus |-> FALSE, kids |-> [spot \in ListTiles |-> IdleText]]

\* Input(value = ...) of each tile: the runes the search finds it by, when
\* the list searches
ListKids(cfg) ==
    [spot \in ListTiles |->
        IF cfg.mesh.score
        THEN TextValue(<<TileLine(spot)>>, <<0, Len(TileLine(spot))>>)
        ELSE IdleText]

NoAtomic == [size |-> 0, held |-> FALSE]

IdleLoop ==
    [pc |-> "ready", result |-> NoValue, raw |-> NoAtomic, hidden |-> NoAtomic,
     raw0 |-> NoAtomic, hidden0 |-> NoAtomic, cleared |-> FALSE]

NoEvent ==
    [event |-> "none", exc |-> "none", caught |-> "none", out |-> "none",
     checked |-> FALSE, dirty |-> FALSE, rang |-> FALSE, drew |-> FALSE]

\* the widget as the operators see it
TheWidget ==
    [text |-> text, mesh |-> mesh, product |-> widget.product,
     focus |-> widget.focus, kids |-> widget.kids, checked |-> FALSE]

\* console.start: the first print, then Handle._start enters the raw mode
Start ==
    /\ loop.pc = "ready"
    /\ loop' = [loop EXCEPT !.pc = "listening",
                            !.hidden = Screen_print(loop.hidden),
                            !.raw = Atomic_enter(loop.raw)]
    /\ UNCHANGED <<textVars, meshVars, wcfg, widget, ev, auxVars>>

\* the runes the event may still add within the bounds
EventInBounds(event) ==
    /\ event = "insert" =>
          /\ SumLen(text.lines) < MaxInput
          /\ Len(search_line(mesh)) < MaxSearch
          /\ \A spot \in ListTiles : SumLen(widget.kids[spot].lines) < MaxInput
    /\ event = "enter" =>
          /\ Len(text.lines) < MaxLines \/ done(text.lines, text.point)
          /\ \A spot \in ListTiles :
                \/ Len(widget.kids[spot].lines) < MaxLines
                \/ done(widget.kids[spot].lines, widget.kids[spot].point)

\* Source._advance: one event, the callback of Console._start around invoke
Event ==
    /\ loop.pc = "listening"
    /\ \E event \in Events, enter \in HookOutcomes(wcfg) :
       \E rune \in IF event = "insert" THEN KeyRunes ELSE {"a"},
          leave \in IF enter = "none" THEN HookOutcomes(wcfg) ELSE {"none"} :
          /\ EventInBounds(event)
          /\ \E r \in start_invoke(wcfg, TheWidget, event, rune, enter, leave) :
                LET drew == r.out = "none"
                IN  /\ text' = r.w.text
                    /\ mesh' = r.w.mesh
                    /\ widget' = [product |-> r.w.product, focus |-> r.w.focus,
                                  kids |-> r.w.kids]
                    /\ ev' = [event |-> event, exc |-> r.exc, caught |-> r.caught,
                              out |-> r.out, checked |-> r.w.checked,
                              dirty |-> r.dirty, rang |-> r.rang, drew |-> drew]
                    /\ loop' = [loop EXCEPT
                                   !.pc = Handle_start(r.out),
                                   !.result = r.result,
                                   !.hidden = IF drew THEN Screen_print(loop.hidden)
                                              ELSE loop.hidden]
    /\ UNCHANGED <<tlast, mcfg, mlast, wcfg, auxVars>>

\* Handle._start swallows Terminate and leaves the raw mode; _start prints
\* the reply and returns result
Return ==
    /\ loop.pc = "terminated"
    /\ loop' = [loop EXCEPT !.pc = "returned",
                            !.raw = ctxmethod_exit(loop.raw, FALSE),
                            !.hidden = Screen_print(loop.hidden)]
    /\ UNCHANGED <<textVars, meshVars, wcfg, widget, ev, auxVars>>

\* cursor.clear(): Cursor._send under the raw mode
Cursor_clear(raw) == ctxmethod_exit(Atomic_enter(raw), FALSE)

\* another exception leaves Handle._start through its context;
\* except BaseException: _system.cursor.clear(); raise
Unwind ==
    /\ loop.pc = "failing"
    /\ loop' = [loop EXCEPT !.pc = "raised",
                            !.raw = Cursor_clear(ctxmethod_exit(loop.raw, TRUE)),
                            !.cleared = TRUE]
    /\ UNCHANGED <<textVars, meshVars, wcfg, widget, ev, auxVars>>

Next ==
    \/ Start
    \/ Event
    \/ Return
    \/ Unwind

(***************************************************************************)
(* survey/_mutates.py: Text.get_state and Text.set_state over the list     *)
(* objects of Python.  store = [lines, point, refs, has, state, taken]:    *)
(* lines and point are the Text; state is the State object the last        *)
(* get_state returned, as it is now; taken is what it held when get_state  *)
(* returned.  refs[i] = j > 0 when line i of the Text is the very list     *)
(* that is line j of the state, and 0 when no state holds that list.       *)
(***************************************************************************)
NoState == TextValue(<<>>, <<0, 0>>)

\* what the lists of the state hold once the Text has written its lines
Shared(lines, refs, state) ==
    [state EXCEPT !.lines =
        [j \in 1..Len(state.lines) |->
            IF \E i \in 1..Len(refs) : refs[i] = j
            THEN lines[CHOOSE i \in 1..Len(refs) : refs[i] = j]
            ELSE state.lines[j]]]

\* the Text after an operation with the result r that leaves it the lists refs
Store_write(s, r, refs) ==
    [s EXCEPT !.lines = r.lines, !.point = r.point, !.refs = refs,
              !.state = IF s.has THEN Shared(r.lines, refs, s.state) ELSE s.state]

\* lines = copy.deepcopy(self._lines); cursor = self._cursor.get_state():
\* lists and a point that nothing else holds
Text_get_state(s) ==
    [s EXCEPT !.has = TRUE, !.refs = [i \in 1..Len(s.lines) |-> 0],
              !.state = TextValue(s.lines, s.point),
              !.taken = TextValue(s.lines, s.point)]

\* self._lines[:] = state.lines puts the lists of the state into the Text;
\* self._point[:] = state.point copies the numbers
Text_set_state(s) ==
    [s EXCEPT !.lines = s.state.lines, !.point = s.state.point,
              !.refs = [i \in 1..Len(s.state.lines) |-> i]]

\* cur_line[cur_x:cur_x] = runes changes the list cur_line itself
Store_insert(s, runes) ==
    Store_write(s, Text_insert(TextValue(s.lines, s.point), runes), s.refs)

Store_move_x(s, size) ==
    Store_write(s, Text_move_x(TextValue(s.lines, s.point), size), s.refs)

\* cur_lines[psh_y:new_y] = (); cur_lines.pop(psh_y) take lists out of the
\* Text; cur_line.extend and cur_line[cur_x:new_x] = () change cur_line itself
Store_delete(s, size) ==
    LET r == Text_delete(TextValue(s.lines, s.point), size)
        cur_y == s.point[1]
        gone == Len(s.lines) - Len(r.lines)
    IN  Store_write(s, r, Take(s.refs, cur_y + 1) \o Drop(s.refs, cur_y + 1 + gone))

\* new_line = cur_line[cur_x:] is a new list; cur_line[cur_x:] = () changes
\* cur_line itself
Store_newline(s) ==
    LET r == Text_newline(TextValue(s.lines, s.point))
        cur_y == s.point[1]
    IN  Store_write(s, r, Take(s.refs, cur_y + 1) \o <<0>> \o Drop(s.refs, cur_y + 1))

IdleStore ==
    [lines |-> << <<>> >>, point |-> <<0, 0>>, refs |-> <<0>>, has |-> FALSE,
     state |-> NoState, taken |-> NoState]

StoreApply(s) ==
    /\ store' = s
    /\ UNCHANGED <<textVars, meshVars, loopVars, atom, term, rend, feed, hand, scan, past, place, form>>

StateGet == StoreApply(Text_get_state(store))

StateSet ==
    /\ store.has
    /\ SumLen(store.state.lines) <= MaxInput
    /\ StoreApply(Text_set_state(store))

StateInsert ==
    \E rune \in Runes :
        /\ SumLen(store.lines) < MaxInput
        /\ StoreApply(Store_insert(store, <<rune>>))

StateMoveX ==
    \E size \in {-1, 1} : StoreApply(Store_move_x(store, size))

StateDelete == StoreApply(Store_delete(store, 1))

StateNewline ==
    /\ Len(store.lines) < MaxHeld
    /\ StoreApply(Store_newline(store))

StateNext ==
    \/ StateGet
    \/ StateSet
    \/ StateInsert
    \/ StateMoveX
    \/ StateDelete
    \/ StateNewline

(***************************************************************************)
(* survey/_core/_helpers.py: Atomic used from several threads.             *)
(* atom = [size, held, lock, ran, th]: size is self._size, held tells      *)
(* whether the enter function ran last (the cursor is hidden, the mode is  *)
(* raw), lock is the thread inside self._lock (0: none), ran is the last   *)
(* function called and the self._size it was called at, th[t] is the       *)
(* thread t: its position, the scopes it is inside, the call it makes and  *)
(* the local size of _deduce.                                              *)
(***************************************************************************)
Threads == 1..MaxThreads

\* _enter: self._deduce(self.__enter, 1, 1); _leave: self._deduce(self.__leave, -1, 0)
Atomic_args(op) ==
    IF op = "enter" THEN [acquires |-> TRUE, step |-> 1, limit |-> 1]
    ELSE [acquires |-> FALSE, step |-> -1, limit |-> 0]

IdleAtom ==
    [size |-> 0, held |-> FALSE, lock |-> 0, ran |-> [fn |-> "none", at |-> 0],
     th |-> [t \in Threads |-> [pc |-> "idle", depth |-> 0, op |-> "none", size |-> 0]]]

AtomApply(a) ==
    /\ atom' = a
    /\ UNCHANGED <<textVars, meshVars, loopVars, store, term, rend, feed, hand, scan, past, place, form>>

\* a thread enters a scope or leaves the innermost one it is inside:
\* with get(self) takes self._lock
AtomicLock(t) ==
    /\ atom.th[t].pc = "idle"
    /\ atom.lock = 0
    /\ \E op \in {"enter", "leave"} :
          /\ op = "enter" => atom.th[t].depth < MaxDepth
          /\ op = "leave" => atom.th[t].depth > 0
          /\ AtomApply([atom EXCEPT !.lock = t, !.th[t].pc = "size", !.th[t].op = op])

\* size = self._size + step
AtomicSize(t) ==
    /\ atom.th[t].pc = "size"
    /\ AtomApply([atom EXCEPT !.th[t].size = atom.size + Atomic_args(atom.th[t].op).step,
                              !.th[t].pc = "function"])

\* if not size > limit and function: function()
AtomicFunction(t) ==
    /\ atom.th[t].pc = "function"
    /\ LET a == Atomic_args(atom.th[t].op)
       IN  IF Atomic_calls(atom.th[t].size, a.limit)
           THEN AtomApply([atom EXCEPT !.held = a.acquires,
                                       !.ran = [fn |-> atom.th[t].op, at |-> atom.size],
                                       !.th[t].pc = "store"])
           ELSE AtomApply([atom EXCEPT !.th[t].pc = "store"])

\* self._size = size
AtomicStore(t) ==
    /\ atom.th[t].pc = "store"
    /\ AtomApply([atom EXCEPT !.size = atom.th[t].size, !.th[t].pc = "unlock"])

\* the with statement releases self._lock
AtomicUnlock(t) ==
    /\ atom.th[t].pc = "unlock"
    /\ AtomApply([atom EXCEPT !.lock = 0, !.th[t].pc = "idle",
                              !.th[t].depth = @ + Atomic_args(atom.th[t].op).step])

AtomicNext ==
    \E t \in Threads :
        \/ AtomicLock(t)
        \/ AtomicSize(t)
        \/ AtomicFunction(t)
        \/ AtomicStore(t)
        \/ AtomicUnlock(t)

(***************************************************************************)
(* survey/_core/_screen.py, survey/_graphics.py: the printers of one       *)
(* terminal.  Printer 0 is the main thread, which prints widgets through   *)
(* _system.screen; printer i > 0 is the thread of the Interface of a       *)
(* Visual class, which prints through the Screen its __init__ builds over  *)
(* the Render it builds.  term = [screen, render, hidden, pc]: screen[s]   *)
(* and render[s] hold the printer inside the lock of the Screen s and of   *)
(* its Render, hidden is the counter of cursor.hidden, pc[p] the position  *)
(* of the printer p in Screen._print ("off": an Interface not started).    *)
(***************************************************************************)
Printers == 0..MaxInterfaces

\* the Screen a printer prints through: _system.screen, or
\* self._screen = _core.Screen(render, cursor) of its Interface
ScreenOf(p) == IF p = 0 THEN <<"system", 0>> ELSE <<"interface", p>>

IdleTerm ==
    [screen |-> [s \in {ScreenOf(p) : p \in Printers} |-> {}],
     render |-> [s \in {ScreenOf(p) : p \in Printers} |-> {}],
     hidden |-> NoAtomic, pc |-> [p \in Printers |-> IF p = 0 THEN "idle" ELSE "off"],
     re |-> [p \in Printers |-> FALSE], log |-> [p \in Printers |-> <<>>]]

TermApply(t) ==
    /\ term' = t
    /\ UNCHANGED <<textVars, meshVars, loopVars, store, atom, rend, feed, hand, scan, past, place, form>>

\* Interface._start: self._cursor.hidden.enter(); thread.start()
InterfaceStart(p) ==
    /\ term.pc[p] = "off"
    /\ TermApply([term EXCEPT !.hidden = Atomic_enter(term.hidden), !.pc[p] = "idle"])

\* Interface._close: the thread has ended; self._cursor.hidden.leave()
InterfaceClose(p) ==
    /\ p # 0
    /\ term.pc[p] = "idle"
    /\ TermApply([term EXCEPT !.hidden = Atomic_leave(term.hidden), !.pc[p] = "off"])

\* what the call of an Atomic adds to the log of a print: the name of the
\* function when _deduce has called it (held has become acquires)
AtomicLog(before, after, acquires, name) ==
    IF after.held = acquires /\ before.held # acquires THEN <<name>> ELSE <<>>

\* print(sketch, re) begins: ctxmethod(lambda self: self._lock)
ScreenLock(p) ==
    \E re \in BOOLEAN :
        /\ term.pc[p] = "idle"
        /\ term.screen[ScreenOf(p)] = {}
        /\ TermApply([term EXCEPT !.screen[ScreenOf(p)] = {p}, !.pc[p] = "locked",
                                  !.re[p] = re, !.log[p] = <<>>])

\* ctxmethod(lambda self: self._cursor.hidden)
ScreenHide(p) ==
    /\ term.pc[p] = "locked"
    /\ TermApply([term EXCEPT !.hidden = Atomic_enter(term.hidden), !.pc[p] = "back",
                              !.log[p] = AtomicLog(term.hidden, Atomic_enter(term.hidden),
                                                   TRUE, "hide")])

\* if re: self._render.back()
ScreenBack(p) ==
    /\ term.pc[p] = "back"
    /\ TermApply([term EXCEPT !.pc[p] = "sketch",
                              !.log[p] = IF term.re[p] THEN Append(@, "back") ELSE @])

\* info = sketch()
ScreenSketch(p) ==
    /\ term.pc[p] = "sketch"
    /\ TermApply([term EXCEPT !.pc[p] = "draw", !.log[p] = Append(@, "sketch")])

\* self._render.draw(*info): Render._draw under the lock of the Render
RenderLock(p) ==
    /\ term.pc[p] = "draw"
    /\ term.render[ScreenOf(p)] = {}
    /\ TermApply([term EXCEPT !.render[ScreenOf(p)] = {p}, !.pc[p] = "drawing"])

RenderDraw(p) ==
    /\ term.pc[p] = "drawing"
    /\ TermApply([term EXCEPT !.render[ScreenOf(p)] = {}, !.pc[p] = "show",
                              !.log[p] = Append(@, "draw")])

\* the hidden cursor is left
ScreenShow(p) ==
    /\ term.pc[p] = "show"
    /\ TermApply([term EXCEPT !.hidden = Atomic_leave(term.hidden), !.pc[p] = "unlock",
                              !.log[p] = @ \o AtomicLog(term.hidden, Atomic_leave(term.hidden),
                                                        FALSE, "show")])

\* the lock of the Screen is released, print returns
ScreenUnlock(p) ==
    /\ term.pc[p] = "unlock"
    /\ TermApply([term EXCEPT !.screen[ScreenOf(p)] = {}, !.pc[p] = "idle",
                              !.re[p] = FALSE, !.log[p] = <<>>])

\* the printer is inside the back/sketch/draw section of Screen._print
InSection(p) == term.pc[p] \in {"back", "sketch", "draw", "drawing"}

ScreenNext ==
    \E p \in Printers :
        \/ InterfaceStart(p)
        \/ InterfaceClose(p)
        \/ ScreenLock(p)
        \/ ScreenHide(p)
        \/ ScreenBack(p)
        \/ ScreenSketch(p)
        \/ RenderLock(p)
        \/ RenderDraw(p)
        \/ ScreenShow(p)
        \/ ScreenUnlock(p)

(***************************************************************************)
(* survey/_core/_render.py: the Renders of one terminal.  memory[r] is the *)
(* Memory (y, x) the Render r holds, or None; Render._history, a WeakSet   *)
(* of the class, holds the Memory objects that some Render still holds.    *)
(* The terminal has MaxY rows and MaxX columns (cursor.measure()) and      *)
(* tells where its cursor is (cursor.locate()); the runes drawn are one    *)
(* cell wide.  last records the draw: the Render, the rows its lines take  *)
(* and the row it started on.                                              *)
(***************************************************************************)
Renders == 1..MaxInterfaces

\* math.floor(size / limit) + 1
get_line_wrap_y(limit, size) == (size \div limit) + 1

get_line_wrap_y_sum(limit, sizes) ==
    LET RECURSIVE Sum(_)
        Sum(i) == IF i > Len(sizes) THEN 0
                  ELSE get_line_wrap_y(limit, sizes[i]) + Sum(i + 1)
    IN  Sum(1)

IdleRend ==
    [memory |-> [r \in Renders |-> None],
     last |-> [op |-> "init", r |-> 1, tot_y |-> 0, cur_y |-> 0]]

\* a _draw whose history is kept by each Render for itself
Render_draw_alone(rd, r, learn, sizes, cur) ==
    LET memory == IF learn THEN [rd.memory EXCEPT ![r] = cur] ELSE rd.memory
        tot_y == get_line_wrap_y_sum(MaxX, [sizes EXCEPT ![1] = @ + cur[2] - 1])
        ext_y == Max(0, (tot_y - (MaxY - cur[1])) - 1)
    IN  [memory |-> [o \in Renders |->
                        IF memory[o] = None \/ o # r THEN memory[o]
                        ELSE <<memory[o][1] - ext_y, memory[o][2]>>],
         last |-> [op |-> "draw", r |-> r, tot_y |-> tot_y, cur_y |-> cur[1]]]

\* _draw(learn, clean, lines, point) of the Render r: sizes are the lengths
\* of the lines, cur is what cursor.locate() answers (Render_draw_locate's
\* when there is a point)
Render_draw(rd, r, learn, sizes, cur) ==
    LET memory == IF learn THEN [rd.memory EXCEPT ![r] = cur] ELSE rd.memory
        tot_y == get_line_wrap_y_sum(MaxX, [sizes EXCEPT ![1] = @ + cur[2] - 1])
        got_y == MaxY - cur[1]
        ext_y == Max(0, (tot_y - got_y) - 1)
    IN  [memory |-> [o \in Renders |->
                        IF memory[o] = None THEN None
                        ELSE <<memory[o][1] - ext_y, memory[o][2]>>],
         last |-> [op |-> "draw", r |-> r, tot_y |-> tot_y, cur_y |-> cur[1]]]

\* a wrap that leaves out the rows the line of the point itself takes
get_point_wrap_row(limit, sizes, cur_y, cur_x) ==
    <<get_line_wrap_y_sum(limit, Take(sizes, cur_y)), cur_x % limit>>

\* _get_point_wrap(limit, sizes, cur_y, cur_x)
get_point_wrap(limit, sizes, cur_y, cur_x) ==
    LET req_x == get_line_wrap_y(limit, cur_x)
        usr_y == get_line_wrap_y_sum(limit, Take(sizes, cur_y)) + req_x
        usr_x == cur_x - (req_x - 1) * limit
    IN  <<usr_y - 1, usr_x>>

\* the start of _draw: what cursor.locate() answered, one column further
\* for each wide rune (east asian width W, A or F) of the line of the point
\* that comes before the point; wide is their number
Render_draw_locate(cur, point, wide) ==
    IF point = None THEN cur ELSE <<cur[1], cur[2] + wide>>

\* _move(sizes, cur_y, cur_x, max_x, point): where self._cursor.move goes
Render_move(sizes, cur_y, cur_x, max_x, point) ==
    LET usr_x == point[2] + (IF point[1] = 0 THEN cur_x ELSE 1)
        wrap == get_point_wrap(max_x, sizes, point[1], usr_x)
    IN  <<wrap[1] + cur_y, wrap[2]>>

\* the end of _draw: the cursor move it makes for point, None without one;
\* cur is Render_draw_locate's.  memory is the Memory of this draw, rebased
\* with the history only when learn has put it there
Render_draw_move(r, learn, sizes, cur, point) ==
    LET adjusted == [sizes EXCEPT ![1] = @ + cur[2] - 1]
        tot_y == get_line_wrap_y_sum(MaxX, adjusted)
        ext_y == Max(0, (tot_y - (MaxY - cur[1])) - 1)
        memory == IF learn THEN <<cur[1] - ext_y, cur[2]>> ELSE cur
    IN  IF point = None THEN None
        ELSE Render_move(adjusted, memory[1], memory[2], MaxX, point)

\* _back: the cursor move it makes, None when nothing is remembered
Render_back_move(rd, r) == rd.memory[r]

\* _back: the cursor goes to the memory, which is forgotten
Render_back(rd, r) ==
    [memory |-> [rd.memory EXCEPT ![r] = None],
     last |-> [op |-> "back", r |-> r, tot_y |-> 0, cur_y |-> 0]]

Draw ==
    \E r \in Renders, learn \in BOOLEAN, cur \in (1..MaxY) \X (1..MaxX),
       sizes \in UNION {[1..n -> 0..MaxRunes] : n \in 1..MaxSize} :
        LET rd == Render_draw(rend, r, learn, sizes, cur)
        IN  /\ \A o \in Renders :
                  rd.memory[o] # None => rd.memory[o][1] > -MaxLost
            /\ rend' = rd
            /\ UNCHANGED <<textVars, meshVars, loopVars, store, atom, term, feed, hand, scan, past, place, form>>

Back ==
    \E r \in Renders :
        /\ rend.memory[r] # None
        /\ rend' = Render_back(rend, r)
        /\ UNCHANGED <<textVars, meshVars, loopVars, store, atom, term, feed, hand, scan, past, place, form>>

RenderNext ==
    \/ Draw
    \/ Back

(***************************************************************************)
(* survey/_core/_source.py: the translation of the tokens of               *)
(* survey/_core/_ansi.py into events.  A token is [type, rune, args]; the  *)
(* runes of the control codes are written by name: "DEL" is 0x7F, "BS"     *)
(* 0x08, "CR" 0x0D, "HT" 0x09, "LF" 0x0A, "BEL" 0x07, "NUL" 0x00.          *)
(***************************************************************************)
Token(type, rune, args) == [type |-> type, rune |-> rune, args |-> args]

\* what _next can return: the results of _ansi.parse, and _empty
Tokens ==
    {Token("control", rune, <<>>) : rune \in {"DEL", "BS", "CR", "HT", "LF", "BEL", "NUL"}}
    \cup {Token("escape", rune, <<>>) : rune \in {"", "f", "b", "a", "A", "D", "~"}}
    \cup {Token("sequence", rune, args) :
             rune \in {"A", "B", "C", "D", "~", "a", "f", "b", "H"},
             args \in {<<>>, <<"1", "3">>, <<"5">>}}
    \cup {Token("text", rune, <<>>) : rune \in {"a", "X", "A", "B", "C", "D", "~", "f", "b", "1"}}

\* _mimic, its values parsed: '\x0d', '\x1b[1;3C', '\x1b[1;3D', '\x08'
Source_mimic ==
    {<<"control", "LF", Token("control", "CR", <<>>)>>,
     <<"escape", "f", Token("sequence", "C", <<"1", "3">>)>>,
     <<"escape", "b", Token("sequence", "D", <<"1", "3">>)>>,
     <<"sequence", "~", Token("control", "BS", <<>>)>>}

\* _group
Source_group ==
    {<<"control", "DEL", "delete_left">>, <<"control", "BS", "delete_right">>,
     <<"control", "CR", "enter">>, <<"control", "HT", "indent">>,
     <<"escape", "", "escape">>,
     <<"sequence", "A", "arrow_up">>, <<"sequence", "B", "arrow_down">>,
     <<"sequence", "D", "arrow_left">>, <<"sequence", "C", "arrow_right">>}

\* a _process without the while loop
Source_process_unmimicked(info) == info

\* the while loop of _process: info = self._mimic[type][info.rune]
RECURSIVE Source_process_mimic(_)
Source_process_mimic(info) ==
    IF \E e \in Source_mimic : e[1] = info.type /\ e[2] = info.rune
    THEN Source_process_mimic(
             (CHOOSE e \in Source_mimic : e[1] = info.type /\ e[2] = info.rune)[3])
    ELSE info

\* a _process that takes every token without a name for an insert
Source_process_insert(info0) ==
    LET info == Source_process_mimic(info0)
        named == {e \in Source_group : e[1] = info.type /\ e[2] = info.rune}
    IN  IF named = {} THEN << <<"insert", info>> >>
        ELSE << <<(CHOOSE e \in named : TRUE)[3], info>> >>

\* _process(info): the calls of self._callback(name, info) it makes
Source_process(info0) ==
    LET info == Source_process_mimic(info0)
        names == {e \in Source_group : e[1] = info.type}
        named == {e \in names : e[2] = info.rune}
    IN  IF names = {} THEN << <<"insert", info>> >>
        ELSE IF named = {} THEN <<>>
        ELSE << <<(CHOOSE e \in named : TRUE)[3], info>> >>

IdleFeed == [info |-> None, sent |-> <<>>, calls |-> 0]

\* _advance: info = self._next(); self._process(info)
Advance ==
    \E info \in Tokens :
        /\ feed.calls < MaxCalls
        /\ feed' = [info |-> info, sent |-> Source_process(info),
                    calls |-> feed.calls + Len(Source_process(info))]
        /\ UNCHANGED <<textVars, meshVars, loopVars, store, atom, term, rend, hand, scan, past, place, form>>

SourceNext == Advance

(***************************************************************************)
(* survey/_core/_ansi.py: the parser of incoming characters and the        *)
(* encoder of outgoing codes.  A character is a string of one rune, the    *)
(* control characters written by name ("ESC" is 0x1B); a text is a         *)
(* sequence of characters; the strings of a Sequence's args are built by   *)
(* concatenation as join does.  The trail of a Sequence is left out: the   *)
(* second loop of _parse_sequence appends to buffer, so it is always ''.   *)
(***************************************************************************)
BITS_CODE_C0_RANGE == (0..31) \cup {127}

BITS_ESCAPE == 27

BITS_SEQUENCE_INTRODUCER == 91

BITS_SEQUENCE_PARAM_ENTER_RANGE == 48..63

BITS_SEQUENCE_PARAM_SEPARATOR == 59

BITS_SEQUENCE_PARAM_LEAVE_RANGE == 32..47

DigitRunes == <<"0", "1", "2", "3", "4", "5", "6", "7", "8", "9">>

\* ord(rune) of the characters used here; ord('') raises TypeError
Ord(rune) ==
    CASE rune = "NUL" -> 0
      [] rune = "BEL" -> 7
      [] rune = "BS" -> 8
      [] rune = "HT" -> 9
      [] rune = "LF" -> 10
      [] rune = "CR" -> 13
      [] rune = "ESC" -> 27
      [] rune = " " -> 32
      [] rune = "-" -> 45
      [] \E d \in 0..9 : rune = DigitRunes[d + 1] ->
             48 + (CHOOSE d \in 0..9 : rune = DigitRunes[d + 1])
      [] rune = ";" -> 59
      [] rune = "?" -> 63
      [] rune = "A" -> 65
      [] rune = "B" -> 66
      [] rune = "C" -> 67
      [] rune = "D" -> 68
      [] rune = "H" -> 72
      [] rune = "R" -> 82
      [] rune = "X" -> 88
      [] rune = "[" -> 91
      [] rune = "a" -> 97
      [] rune = "b" -> 98
      [] rune = "f" -> 102
      [] rune = "m" -> 109
      [] rune = "~" -> 126
      [] rune = "DEL" -> 127

\* a getter: the texts it will return one call after the other ('' once
\* they are used up), the memo of _parse_stream, and whether an empty text
\* is returned (a plain getter) or raised as _EmptyRead (Source._get)
\* with the io's waiting mode, the mode each recv() was made in, and _wait
Stream(reads, raising) ==
    [memo |-> <<>>, reads |-> reads, raising |-> raising,
     wait |-> FALSE, mode |-> "blocking", modes |-> <<>>]

Recv(reads) == IF reads = <<>> THEN <<>> ELSE Head(reads)

Rest(reads) == IF reads = <<>> THEN <<>> ELSE Tail(reads)

Got(rune, exc, s) == [rune |-> rune, exc |-> exc, s |-> s]

\* Source._get as the getter: raise _EmptyRead() if not text
Source_get(s) ==
    IF s.raising /\ Recv(s.reads) = <<>> THEN "_EmptyRead" ELSE "none"

\* ModeIO.wait(switch): _wait(mode, switch) then _set; VMIN = 1 if switch else 0
ModeIO_wait(switch) == IF switch THEN "blocking" ELSE "poll"

\* Source._get never leaving the waiting mode it was called in
Source_recv_stay(s) == [s EXCEPT !.modes = Append(@, s.mode), !.reads = Rest(@)]

\* Source._get's use of the io: recv() in the mode at hand; a text that is
\* not empty while _wait is set clears _wait and calls wait(False)
Source_recv(s) ==
    LET s1 == [s EXCEPT !.modes = Append(@, s.mode), !.reads = Rest(@)]
    IN  IF s.raising /\ Recv(s.reads) # <<>> /\ s.wait
        THEN [s1 EXCEPT !.wait = FALSE, !.mode = ModeIO_wait(FALSE)]
        ELSE s1

\* _parse_stream(get).function: at most two rounds of memo.pop(0), a failed
\* pop calling get() and extending memo; rune = '' when both pops failed
parse_stream(s) ==
    IF s.memo # <<>>
    THEN Got(Head(s.memo), "none", [s EXCEPT !.memo = Tail(@)])
    ELSE IF Source_get(s) # "none"
    THEN Got("", Source_get(s), Source_recv(s))
    ELSE IF Recv(s.reads) # <<>>
    THEN Got(Head(Recv(s.reads)), "none",
             [Source_recv(s) EXCEPT !.memo = Tail(Recv(s.reads))])
    ELSE LET s1 == Source_recv(s)
         IN  Got("", "none", [Source_recv(s1) EXCEPT !.memo = Recv(s1.reads)])

\* what a parse gives: the exception that left it, or the code it returned
Parsed(exc, code, s) ==
    [exc |-> exc, code |-> code, reads |-> s.reads, modes |-> s.modes, mode |-> s.mode]

\* rune = get(); bits = ord(rune): how the two lines end
get_ord(s) ==
    LET g == parse_stream(s)
    IN  IF g.exc = "none" /\ g.rune = "" THEN Got("", "TypeError", g.s) ELSE g

\* the second loop of _parse_sequence: runes in the leave range are skipped
RECURSIVE parse_sequence_trail(_, _)
parse_sequence_trail(rune, s) ==
    IF Ord(rune) \in BITS_SEQUENCE_PARAM_LEAVE_RANGE
    THEN LET g == get_ord(s)
         IN  IF g.exc # "none" THEN g ELSE parse_sequence_trail(g.rune, g.s)
    ELSE Got(rune, "none", s)

\* the first loop of _parse_sequence and what follows it
RECURSIVE parse_sequence_params(_, _, _)
parse_sequence_params(buffer, params, s) ==
    LET g == get_ord(s)
    IN  IF g.exc # "none" THEN Parsed(g.exc, None, g.s)
        ELSE IF Ord(g.rune) = BITS_SEQUENCE_PARAM_SEPARATOR
        THEN parse_sequence_params("", Append(params, IF buffer = "" THEN "0" ELSE buffer), g.s)
        ELSE IF Ord(g.rune) \in BITS_SEQUENCE_PARAM_ENTER_RANGE
        THEN parse_sequence_params(buffer \o g.rune, params, g.s)
        ELSE LET t == parse_sequence_trail(g.rune, g.s)
             IN  IF t.exc # "none" THEN Parsed(t.exc, None, t.s)
                 ELSE Parsed("none",
                             Token("sequence", t.rune,
                                   IF buffer = "" THEN params ELSE Append(params, buffer)),
                             t.s)

\* a _parse_sequence whose buffer does not start empty
parse_sequence_padded(s) == parse_sequence_params("0", <<>>, s)

\* _parse_sequence(get)
parse_sequence(s) == parse_sequence_params("", <<>>, s)

\* _parse_escape(get)
parse_escape(s) ==
    LET g == get_ord(s)
    IN  IF g.exc # "none" THEN Parsed(g.exc, None, g.s)
        ELSE IF Ord(g.rune) = BITS_SEQUENCE_INTRODUCER THEN parse_sequence(g.s)
        ELSE Parsed("none", Token("escape", g.rune, <<>>), g.s)

\* _parse(get) over a stream
parse_from(s) ==
    LET g == get_ord(s)
    IN  IF g.exc # "none" THEN Parsed(g.exc, None, g.s)
        ELSE IF Ord(g.rune) \in BITS_CODE_C0_RANGE
        THEN IF Ord(g.rune) = BITS_ESCAPE THEN parse_escape(g.s)
             ELSE Parsed("none", Token("control", g.rune, <<>>), g.s)
        ELSE Parsed("none", Token("text", g.rune, <<>>), g.s)

\* parse(get) with a plain getter
parse(reads) == parse_from(Stream(reads, FALSE))

\* parse_iterable(iterable) of a string: one character per call of get
parse_iterable(runes) == parse([i \in 1..Len(runes) |-> <<runes[i]>>])

\* str(n) of an integer, as characters
RECURSIVE str_nat(_)
str_nat(n) == IF n < 10 THEN <<DigitRunes[n + 1]>> ELSE str_nat(n \div 10) \o <<DigitRunes[(n % 10) + 1]>>

\* '' if arg is None else str(arg); an argument is None or <<n>>
str_arg(arg) ==
    IF arg = None THEN <<>>
    ELSE IF arg[1] < 0 THEN <<"-">> \o str_nat(-arg[1]) ELSE str_nat(arg[1])

\* separator.join(args), as characters
RECURSIVE join_args(_)
join_args(args) ==
    IF args = <<>> THEN <<>>
    ELSE IF Len(args) = 1 THEN str_arg(args[1])
    ELSE str_arg(args[1]) \o <<";">> \o join_args(Tail(args))

\* _get(prefix, code, *args)
get(prefix, code, args) == prefix \o join_args(args) \o <<code>>

\* get_control(code, *args, private)
get_control(code, args, private) ==
    get(<<"ESC", "[">> \o (IF private THEN <<"?">> ELSE <<>>), code, args)

\* ''.join of characters
RECURSIVE join(_)
join(runes) == IF runes = <<>> THEN "" ELSE Head(runes) \o join(Tail(runes))

\* Source._next: parse with Source._get; _EmptyRead gives _empty; _advance
\* has set _wait, and the io is in the given waiting mode
Source_next(reads, mode) ==
    LET p == parse_from([Stream(reads, TRUE) EXCEPT !.wait = TRUE, !.mode = mode])
    IN  IF p.exc = "_EmptyRead" THEN Parsed("none", Token("escape", "", <<>>), p)
        ELSE p

ScanRunes == {"ESC", "[", ";", "1", "3", "C", "f", "-", "LF"}

ControlCodes == {"C", "H", "m", "~"}

ControlArgs == {None, <<-1>>, <<0>>, <<5>>, <<13>>}

SeqsUpTo(S, n) == UNION {[1..k -> S] : k \in 0..n}

\* what a terminal sends for Alt+Right and Alt+Left, in either of its ways
KeyTexts ==
    {<<"ESC", "[", "1", ";", "3", "C">>, <<"ESC", "[", "1", ";", "3", "D">>,
     <<"ESC", "f">>, <<"ESC", "b">>}

\* one text of up to MaxText characters or of a key, or up to MaxReads texts
\* of at most one character, or a key character by character
ScanReads ==
    {<<t>> : t \in SeqsUpTo(ScanRunes, MaxText) \cup KeyTexts}
    \cup SeqsUpTo(SeqsUpTo(ScanRunes, 1), MaxReads)
    \cup {[i \in 1..Len(t) |-> <<t[i]>>] : t \in KeyTexts}

NoParsed ==
    [exc |-> "none", code |-> None, reads |-> <<>>, modes |-> <<>>, mode |-> "blocking"]

Scan(op, code, args, private, reads, out, sent) ==
    [op |-> op, code |-> code, args |-> args, private |-> private,
     from |-> reads, reads |-> reads, out |-> out, sent |-> sent,
     mode |-> ModeIO_wait(TRUE), at |-> "none"]

IdleScan == Scan("idle", "", <<>>, FALSE, <<>>, NoParsed, <<>>)

\* get_control(code, *args, private = private), its text read back in one piece
GetControl ==
    \E code \in ControlCodes, args \in SeqsUpTo(ControlArgs, MaxArgs), private \in BOOLEAN :
        /\ scan.op = "idle"
        /\ scan' = Scan("get_control", code, args, private,
                        <<get_control(code, args, private)>>, NoParsed, <<>>)
        /\ UNCHANGED <<textVars, meshVars, loopVars, store, atom, term, rend, feed, hand, past, place, form>>

\* parse(get) called with a plain getter over the texts at hand
Parse ==
    /\ scan.op \in {"init", "get_control"}
    /\ scan' = [scan EXCEPT !.op = "parse", !.from = scan.reads,
                             !.out = parse(scan.reads)]
    /\ UNCHANGED <<textVars, meshVars, loopVars, store, atom, term, rend, feed, hand, past, place, form>>

\* Source._advance after its _next gave p: io.wait(True), then _process; an
\* exception out of _next leaves before both
Source_advance(s, p) ==
    IF p.exc # "none"
    THEN [s EXCEPT !.op = "advance", !.from = s.reads, !.out = p, !.reads = p.reads,
                   !.mode = p.mode, !.at = "none", !.sent = <<>>]
    ELSE [s EXCEPT !.op = "advance", !.from = s.reads, !.out = p, !.reads = p.reads,
                   !.mode = ModeIO_wait(TRUE), !.at = ModeIO_wait(TRUE),
                   !.sent = Source_process(p.code)]

\* Source._advance over the texts the io will return: _next, then
\* io.wait(True), then _process; an exception out of _next leaves before both
ScanAdvance ==
    /\ scan.op \in {"init", "advance"}
    /\ scan.reads # <<>> \/ scan.op = "init"
    /\ scan' = Source_advance(scan, Source_next(scan.reads, scan.mode))
    /\ UNCHANGED <<textVars, meshVars, loopVars, store, atom, term, rend, feed, hand, past, place, form>>

(***************************************************************************)
(* survey/_core/_cursor.py: Cursor._locate over the texts the io returns.  *)
(***************************************************************************)
\* int(text) of an argument of at most two characters; -1 for a ValueError
int(value) ==
    LET fits == {n \in 0..99 : value \in {join(str_nat(n)), "0" \o join(str_nat(n))}}
    IN  IF fits = {} THEN -1 ELSE CHOOSE n \in fits : TRUE

Located(exc, code, point, reads) ==
    [exc |-> exc, code |-> code, point |-> point, reads |-> reads]

\* the loop of _locate and what follows it: a token that is not a Sequence
\* and has the rune R is passed over, any other ends the loop; code.args of a
\* token without args is an AttributeError
RECURSIVE Cursor_locate(_)
Cursor_locate_code(p) ==
    IF p.exc # "none" THEN Located(p.exc, None, <<>>, p.reads)
    ELSE IF p.code.type # "sequence" /\ p.code.rune = "R" THEN Cursor_locate(p.reads)
    ELSE IF p.code.type # "sequence"
    THEN Located("AttributeError", p.code, <<>>, p.reads)
    ELSE IF \E i \in 1..Len(p.code.args) : int(p.code.args[i]) < 0
    THEN Located("ValueError", p.code, <<>>, p.reads)
    ELSE Located("none", p.code, [i \in 1..Len(p.code.args) |-> int(p.code.args[i])], p.reads)

\* Cursor._locate after its _send: code = parse(io.recv), again and again
Cursor_locate(reads) == Cursor_locate_code(parse(reads))

\* the scan after a _locate that gave out
Cursor_located(s, out) ==
    [s EXCEPT !.op = "locate", !.code = "n", !.args = << <<6>> >>, !.from = s.reads,
              !.out = out, !.reads = out.reads,
              !.sent = get_control("n", << <<6>> >>, FALSE)]

\* the reply of a terminal to CSI 6n
Reply(row, column) == get_control("R", << <<row>>, <<column>> >>, FALSE)

\* what a user may have typed before the reply comes: nothing, a letter, a
\* Return, an arrow, Alt+Right
TypedAhead ==
    {<<>>, <<"a">>, <<"R">>, <<"CR">>, <<"ESC", "[", "C">>,
     <<"ESC", "[", "1", ";", "3", "C">>}

\* the texts of a locate: the keys in a text of their own or in one text with
\* the reply, the reply whole or character by character
LocateReads ==
    UNION {{(IF keys = <<>> THEN <<>> ELSE <<keys>>) \o <<Reply(row, column)>>,
            <<keys \o Reply(row, column)>>,
            (IF keys = <<>> THEN <<>> ELSE <<keys>>)
                \o [i \in 1..Len(Reply(row, column)) |-> <<Reply(row, column)[i]>>]} :
           keys \in TypedAhead, row \in {1, 3, 13}, column \in {1, 3}}

\* Cursor._locate: _send('n', '6'), then the loop over parse(io.recv)
ScanLocate ==
    /\ scan.op = "ask"
    /\ scan' = Cursor_located(scan, Cursor_locate(scan.reads))
    /\ UNCHANGED <<textVars, meshVars, loopVars, store, atom, term, rend, feed, hand, past, place, form>>

ParseNext == GetControl \/ Parse \/ ScanAdvance \/ ScanLocate

(***************************************************************************)
(* survey/_handle.py: a Handle over the mutate of a widget, invoked with   *)
(* arbitrary events, its callback returning or raising as it likes.        *)
(***************************************************************************)
HandleConfigs ==
    {cfg \in WidgetConfigs : cfg.hook} \cup {TextWidget(TRUE, FALSE, "none", FALSE, TRUE)}

IdleHand == [event |-> "none", enter |-> "none", exc |-> "none", calls |-> <<>>]

HandleInvoke ==
    \E event \in Events, enter \in HookOutcomes(wcfg) :
    \E rune \in IF event = "insert" THEN KeyRunes ELSE {"a"},
       leave \in IF enter = "none" THEN HookOutcomes(wcfg) ELSE {"none"} :
        /\ EventInBounds(event)
        /\ \E h \in Handle_invoke_calls(wcfg, TheWidget, event, rune, enter, leave) :
              /\ text' = h.w.text
              /\ mesh' = h.w.mesh
              /\ hand' = [event |-> event, enter |-> enter, exc |-> h.exc,
                          calls |-> h.calls]
        /\ UNCHANGED <<tlast, mcfg, mlast, loopVars, store, atom, term, rend, feed, scan, past, place, form>>

HandleNext == HandleInvoke

(***************************************************************************)
(* survey/_widgets.py: a widget invoked by its caller, event after event,  *)
(* as a tile of a compound widget is: an exception leaves invoke and the   *)
(* caller goes on.                                                         *)
(***************************************************************************)
WidgetInvoke ==
    \E event \in Events, enter \in HookOutcomes(wcfg) :
    \E rune \in IF event = "insert" THEN KeyRunes ELSE {"a"},
       leave \in IF enter = "none" THEN HookOutcomes(wcfg) ELSE {"none"} :
        /\ EventInBounds(event)
        /\ \E r \in Widget_invoke(wcfg, TheWidget, event, rune, enter, leave) :
              /\ text' = r.w.text
              /\ mesh' = r.w.mesh
              /\ widget' = [product |-> r.w.product, focus |-> r.w.focus,
                            kids |-> r.w.kids]
              /\ ev' = [NoEvent EXCEPT !.event = event, !.exc = r.exc,
                                       !.checked = r.w.checked]
        /\ UNCHANGED <<tlast, mcfg, mlast, wcfg, loop, auxVars>>

WidgetNext == WidgetInvoke

(***************************************************************************)
(* survey/_mutates.py: a Text, any valid one, and the calls made on it     *)
(* one after the other, each kept with the Text it was made on.            *)
(***************************************************************************)
\* the lines of up to MaxLines lines and MaxRunes runes in all
EditLines ==
    {lines \in UNION {[1..k -> SeqsUpTo({"a"}, MaxRunes)] : k \in 1..MaxLines} :
        SumLen(lines) <= MaxRunes}

EditTexts ==
    {TextValue(lines, <<y, x>>) :
        lines \in EditLines, y \in 0..(MaxLines - 1), x \in 0..MaxRunes}

Call(t, op, runes, size, r) ==
    [text |-> t, op |-> op, runes |-> runes, size |-> size, ok |-> r.ok, err |-> r.err]

NoPast == <<>>

EditApply(name, runes, size, r) ==
    /\ Len(past) < MaxSteps
    /\ past' = Append(past, Call(text, name, runes, size, r))
    /\ text' = TextValue(r.lines, r.point)
    /\ tlast' = [op |-> name, size |-> size, ok |-> r.ok]
    /\ UNCHANGED <<meshVars, loopVars, store, atom, term, rend, feed, hand, scan, place, form>>

EditInsert ==
    \E runes \in SeqsUpTo(Runes, MaxSize) :
        /\ SumLen(text.lines) + Len(runes) <= MaxRunes + MaxSize
        /\ EditApply("insert", runes, Len(runes), Text_insert(text, runes))

EditMoveX ==
    \E size \in (-MaxSize)..MaxSize :
        EditApply("move_x", <<>>, size, Text_move_x(text, size))

EditDelete ==
    \E size \in 0..MaxSize :
        EditApply("delete", <<>>, size, Text_delete(text, size))

EditNext == EditInsert \/ EditMoveX \/ EditDelete

(***************************************************************************)
(* survey/_core/_render.py: one call of _get_point_wrap or of _draw with a *)
(* point, over all the small arguments; and the draws and backs of the     *)
(* Renders of a terminal with the cursor moves they make.                  *)
(***************************************************************************)
SizeLists == UNION {[1..n -> 0..MaxRunes] : n \in 1..MaxSize}

\* the points among lines of these sizes: a row, and a column up to its end
PointsAmong(sizes) ==
    {p \in (0..(Len(sizes) - 1)) \X (0..MaxRunes) : p[2] <= sizes[p[1] + 1]}

Placed(op, r, learn, limit, sizes, cur, point, wide, out) ==
    [op |-> op, r |-> r, learn |-> learn, limit |-> limit, sizes |-> sizes,
     cur |-> cur, point |-> point, wide |-> wide, out |-> out]

NoPlace == Placed("init", 1, FALSE, 1, <<0>>, <<1, 1>>, None, 0, None)

\* how many of the runes before the point may be wide
WideBefore(point) == IF point = None THEN {0} ELSE 0..Min(MaxWide, point[2])

PlaceWrap ==
    \E limit \in 1..(MaxX + 1), sizes \in SizeLists :
    \E point \in PointsAmong(sizes) :
        /\ place.op = "init"
        /\ place' = Placed("wrap", 1, FALSE, limit, sizes, <<1, 1>>, point, 0,
                           get_point_wrap(limit, sizes, point[1], point[2]))
        /\ UNCHANGED <<textVars, meshVars, loopVars, store, atom, term, rend, feed, hand, scan, past, form>>

PlaceDraw ==
    \E r \in Renders, learn \in BOOLEAN, cur \in (1..MaxY) \X (1..MaxX),
       sizes \in SizeLists :
    \E point \in PointsAmong(sizes) \cup {None} :
    \E wide \in WideBefore(point) :
        /\ place.op = "init"
        /\ rend' = Render_draw(rend, r, learn, sizes, Render_draw_locate(cur, point, wide))
        /\ place' = Placed("draw", r, learn, MaxX, sizes, cur, point, wide,
                           Render_draw_move(r, learn, sizes,
                                            Render_draw_locate(cur, point, wide), point))
        /\ UNCHANGED <<textVars, meshVars, loopVars, store, atom, term, feed, hand, scan, past, form>>

PlaceNext == PlaceWrap \/ PlaceDraw

\* an empty line, and up to MaxSize lines of MaxRunes runes
ReturnSizes == {<<0>>} \cup {[i \in 1..n |-> MaxRunes] : n \in 1..MaxSize}

\* no point, or one on the first line with at most MaxWide runes before it
ReturnPoints(sizes) == {None} \cup {p \in PointsAmong(sizes) : p[1] = 0 /\ p[2] <= MaxWide}

ReturnDraw ==
    \E r \in Renders, learn \in BOOLEAN, cur \in (1..MaxY) \X (1..MaxX),
       sizes \in ReturnSizes :
    \E point \in ReturnPoints(sizes) :
    \E wide \in WideBefore(point) :
        LET rd == Render_draw(rend, r, learn, sizes, Render_draw_locate(cur, point, wide))
        IN  /\ \A o \in Renders :
                  rd.memory[o] # None => rd.memory[o][1] > -MaxLost
            /\ rend' = rd
            /\ place' = Placed("draw", r, learn, MaxX, sizes, cur, point, wide,
                               Render_draw_move(r, learn, sizes,
                                                Render_draw_locate(cur, point, wide), point))
            /\ UNCHANGED <<textVars, meshVars, loopVars, store, atom, term, feed, hand, scan, past, form>>

ReturnBack ==
    \E r \in Renders :
        /\ rend' = Render_back(rend, r)
        /\ place' = Placed("back", r, FALSE, MaxX, <<0>>, <<1, 1>>, None, 0,
                           Render_back_move(rend, r))
        /\ UNCHANGED <<textVars, meshVars, loopVars, store, atom, term, feed, hand, scan, past, form>>

ReturnNext == ReturnDraw \/ ReturnBack

(***************************************************************************)
(* Specifications.                                                         *)
(***************************************************************************)
(***************************************************************************)
(* survey/_visuals.py: Line._format over a list of regions, each the lines *)
(* and the point of a visual, and the index of the region that holds the   *)
(* cursor.  A region has at least one line.                                *)
(***************************************************************************)
Region(lines, point) == [lines |-> lines, point |-> point]

Formed(op, tiles, index, lines, point) ==
    [op |-> op, tiles |-> tiles, index |-> index, lines |-> lines, point |-> point]

\* lines[-1].extend(line); lines.extend(tile_lines)
Line_format_merge(lines, tile_lines) ==
    IF tile_lines = <<>> THEN lines
    ELSE [lines EXCEPT ![Len(lines)] = @ \o Head(tile_lines)] \o Tail(tile_lines)

\* the rounds of the loop of _format from tile_index on
RECURSIVE Line_format_loop(_, _, _, _, _, _)
Line_format_loop(tiles, tiles_index, tile_index, fin_y, fin_x, lines) ==
    IF tile_index >= Len(tiles) THEN [lines |-> lines, point |-> <<fin_y, fin_x>>]
    ELSE LET tile == tiles[tile_index + 1]
             y == IF tile_index < tiles_index THEN fin_y + Len(tile.lines) - 1
                  ELSE IF tile_index = tiles_index THEN fin_y + tile.point[1]
                  ELSE fin_y
             x == IF tile_index # tiles_index THEN fin_x
                  ELSE IF y = 0 THEN tile.point[2] + Len(lines[1])
                  ELSE tile.point[2]
         IN  Line_format_loop(tiles, tiles_index, tile_index + 1, y, x,
                              Line_format_merge(lines, tile.lines))

\* Line._format(tiles, tiles_point), tiles_index = tiles_point[0]
Line_format(tiles, tiles_index) ==
    Line_format_loop(tiles, tiles_index, 0, 0, 0, << <<>> >>)

\* the lines of a region: one to MaxRegionLines lines of at most one rune
RegionLines ==
    UNION {[1..n -> {<<>>, <<"a">>}] : n \in 1..MaxRegionLines}

\* a region and a point on one of its runes or at the end of one of its lines
Regions ==
    UNION {{Region(lines, q) :
               q \in {p \in (0..(Len(lines) - 1)) \X (0..1) : p[2] <= Len(lines[p[1] + 1])}} :
           lines \in RegionLines}

NoForm == Formed("idle", <<>>, 0, <<>>, <<0, 0>>)

\* Line.get: _format over the tiles at hand
LineFormat ==
    /\ form.op = "init"
    /\ LET r == Line_format(form.tiles, form.index)
       IN  form' = [form EXCEPT !.op = "format", !.lines = r.lines, !.point = r.point]
    /\ UNCHANGED <<textVars, meshVars, loopVars, store, atom, term, rend, feed, hand, scan, past, place>>

FormatNext == LineFormat

InitText ==
    /\ text \in TextInitSet
    /\ tlast = TextNoLast
    /\ mesh = IdleMesh
    /\ mcfg = IdleMeshConfig
    /\ mlast = MeshNoLast
    /\ wcfg = IdleWidgetConfig
    /\ widget = IdleWidget
    /\ loop = IdleLoop
    /\ ev = NoEvent
    /\ store = IdleStore
    /\ atom = IdleAtom
    /\ term = IdleTerm
    /\ rend = IdleRend
    /\ feed = IdleFeed
    /\ hand = IdleHand
    /\ scan = IdleScan
    /\ past = NoPast
    /\ place = NoPlace
    /\ form = NoForm

SpecText == InitText /\ [][TextNext]_vars

InitMesh ==
    /\ mcfg \in MeshConfigs
    /\ \E layout \in MeshLayouts :
          /\ layout[2] \in layout[1] \/ Creates(mcfg, layout[2])
          /\ mesh = Mesh_init(mcfg, layout[1], layout[2])
    /\ mlast = MeshNoLast
    /\ text = IdleText
    /\ tlast = TextNoLast
    /\ wcfg = IdleWidgetConfig
    /\ widget = IdleWidget
    /\ loop = IdleLoop
    /\ ev = NoEvent
    /\ store = IdleStore
    /\ atom = IdleAtom
    /\ term = IdleTerm
    /\ rend = IdleRend
    /\ feed = IdleFeed
    /\ hand = IdleHand
    /\ scan = IdleScan
    /\ past = NoPast
    /\ place = NoPlace
    /\ form = NoForm

SpecMesh == InitMesh /\ [][MeshNext]_vars

\* a Mesh with a score and without a creator, the point where each search
\* began being kept
InitSearch ==
    /\ mcfg \in {cfg \in MeshConfigs : cfg.score /\ cfg.create = "none"}
    /\ \E layout \in MeshLayouts :
          /\ layout[2] \in layout[1]
          /\ mesh = Mesh_init(mcfg, layout[1], layout[2])
    /\ mlast = [MeshNoLast EXCEPT !.origin.kept = TRUE]
    /\ text = IdleText
    /\ tlast = TextNoLast
    /\ wcfg = IdleWidgetConfig
    /\ widget = IdleWidget
    /\ loop = IdleLoop
    /\ ev = NoEvent
    /\ store = IdleStore
    /\ atom = IdleAtom
    /\ term = IdleTerm
    /\ rend = IdleRend
    /\ feed = IdleFeed
    /\ hand = IdleHand
    /\ scan = IdleScan
    /\ past = NoPast
    /\ place = NoPlace
    /\ form = NoForm

SpecSearch == InitSearch /\ [][MeshNext]_vars

\* start() called with the terminal untouched, or inside a raw-mode scope
\* with the cursor hidden
Init ==
    /\ wcfg \in WidgetConfigs
    /\ text = IdleText
    /\ tlast = TextNoLast
    /\ mcfg = wcfg.mesh
    /\ mesh = IF wcfg.kind = "mesh" THEN Mesh_init(wcfg.mesh, ListTiles, <<0, 0>>)
              ELSE IdleMesh
    /\ mlast = MeshNoLast
    /\ widget = [IdleWidget EXCEPT !.kids = ListKids(wcfg)]
    /\ \E entry \in {NoAtomic, Atomic_enter(NoAtomic)} :
          loop = [IdleLoop EXCEPT !.raw = entry, !.hidden = entry,
                                  !.raw0 = entry, !.hidden0 = entry]
    /\ ev = NoEvent
    /\ store = IdleStore
    /\ atom = IdleAtom
    /\ term = IdleTerm
    /\ rend = IdleRend
    /\ feed = IdleFeed
    /\ hand = IdleHand
    /\ scan = IdleScan
    /\ past = NoPast
    /\ place = NoPlace
    /\ form = NoForm

Spec == Init /\ [][Next]_vars

\* a list whose callable focus sends every event to the current tile, the
\* tiles being Input(multi = True, validate = ...) widgets
NestConfig == [ListWidget("all", "none", FALSE, FALSE, FALSE) EXCEPT !.tile = "multi"]

\* Input(multi = True, value = ...): the lines of the value, the point at
\* their end
NestKids ==
    {TextValue(lines, <<Len(lines) - 1, Len(lines[Len(lines)])>>) :
        lines \in {<< <<>> >>, << <<"a">> >>, << <<"a">>, <<>> >>}}

\* start() of the list of multi-line inputs
InitNest ==
    /\ wcfg = NestConfig
    /\ text = IdleText
    /\ tlast = TextNoLast
    /\ mcfg = wcfg.mesh
    /\ mesh = Mesh_init(wcfg.mesh, ListTiles, <<0, 0>>)
    /\ mlast = MeshNoLast
    /\ \E kids \in [ListTiles -> NestKids] : widget = [IdleWidget EXCEPT !.kids = kids]
    /\ loop = IdleLoop
    /\ ev = NoEvent
    /\ store = IdleStore
    /\ atom = IdleAtom
    /\ term = IdleTerm
    /\ rend = IdleRend
    /\ feed = IdleFeed
    /\ hand = IdleHand
    /\ scan = IdleScan
    /\ past = NoPast
    /\ place = NoPlace
    /\ form = NoForm

SpecNest == InitNest /\ [][Next]_vars

\* a Text as a caller can construct it, no state taken yet
InitState ==
    /\ \E t \in {i \in TextInitSet : SumLen(i.lines) <= MaxInput /\ Len(i.lines) <= MaxHeld} :
          store = [IdleStore EXCEPT !.lines = t.lines, !.point = t.point,
                                    !.refs = [i \in 1..Len(t.lines) |-> 0]]
    /\ atom = IdleAtom
    /\ term = IdleTerm
    /\ rend = IdleRend
    /\ feed = IdleFeed
    /\ hand = IdleHand
    /\ scan = IdleScan
    /\ past = NoPast
    /\ place = NoPlace
    /\ text = IdleText
    /\ tlast = TextNoLast
    /\ mesh = IdleMesh
    /\ mcfg = IdleMeshConfig
    /\ mlast = MeshNoLast
    /\ wcfg = IdleWidgetConfig
    /\ widget = IdleWidget
    /\ loop = IdleLoop
    /\ ev = NoEvent
    /\ form = NoForm

SpecState == InitState /\ [][StateNext]_vars

InitAtomic ==
    /\ atom = IdleAtom
    /\ store = IdleStore
    /\ term = IdleTerm
    /\ rend = IdleRend
    /\ feed = IdleFeed
    /\ hand = IdleHand
    /\ scan = IdleScan
    /\ past = NoPast
    /\ place = NoPlace
    /\ text = IdleText
    /\ tlast = TextNoLast
    /\ mesh = IdleMesh
    /\ mcfg = IdleMeshConfig
    /\ mlast = MeshNoLast
    /\ wcfg = IdleWidgetConfig
    /\ widget = IdleWidget
    /\ loop = IdleLoop
    /\ ev = NoEvent
    /\ form = NoForm

SpecAtomic == InitAtomic /\ [][AtomicNext]_vars

InitScreen ==
    /\ term = IdleTerm
    /\ rend = IdleRend
    /\ feed = IdleFeed
    /\ hand = IdleHand
    /\ scan = IdleScan
    /\ past = NoPast
    /\ place = NoPlace
    /\ store = IdleStore
    /\ atom = IdleAtom
    /\ text = IdleText
    /\ tlast = TextNoLast
    /\ mesh = IdleMesh
    /\ mcfg = IdleMeshConfig
    /\ mlast = MeshNoLast
    /\ wcfg = IdleWidgetConfig
    /\ widget = IdleWidget
    /\ loop = IdleLoop
    /\ ev = NoEvent
    /\ form = NoForm

SpecScreen == InitScreen /\ [][ScreenNext]_vars

InitRender ==
    /\ rend = IdleRend
    /\ feed = IdleFeed
    /\ hand = IdleHand
    /\ scan = IdleScan
    /\ past = NoPast
    /\ place = NoPlace
    /\ term = IdleTerm
    /\ store = IdleStore
    /\ atom = IdleAtom
    /\ text = IdleText
    /\ tlast = TextNoLast
    /\ mesh = IdleMesh
    /\ mcfg = IdleMeshConfig
    /\ mlast = MeshNoLast
    /\ wcfg = IdleWidgetConfig
    /\ widget = IdleWidget
    /\ loop = IdleLoop
    /\ ev = NoEvent
    /\ form = NoForm

SpecRender == InitRender /\ [][RenderNext]_vars

InitSource ==
    /\ feed = IdleFeed
    /\ hand = IdleHand
    /\ scan = IdleScan
    /\ past = NoPast
    /\ place = NoPlace
    /\ rend = IdleRend
    /\ term = IdleTerm
    /\ store = IdleStore
    /\ atom = IdleAtom
    /\ text = IdleText
    /\ tlast = TextNoLast
    /\ mesh = IdleMesh
    /\ mcfg = IdleMeshConfig
    /\ mlast = MeshNoLast
    /\ wcfg = IdleWidgetConfig
    /\ widget = IdleWidget
    /\ loop = IdleLoop
    /\ ev = NoEvent
    /\ form = NoForm

SpecSource == InitSource /\ [][SourceNext]_vars

InitHandle ==
    /\ wcfg \in HandleConfigs
    /\ text = IdleText
    /\ tlast = TextNoLast
    /\ mcfg = wcfg.mesh
    /\ mesh = IF wcfg.kind = "mesh" THEN Mesh_init(wcfg.mesh, ListTiles, <<0, 0>>)
              ELSE IdleMesh
    /\ mlast = MeshNoLast
    /\ widget = [IdleWidget EXCEPT !.kids = ListKids(wcfg)]
    /\ loop = IdleLoop
    /\ ev = NoEvent
    /\ store = IdleStore
    /\ atom = IdleAtom
    /\ term = IdleTerm
    /\ rend = IdleRend
    /\ feed = IdleFeed
    /\ hand = IdleHand
    /\ scan = IdleScan
    /\ past = NoPast
    /\ place = NoPlace
    /\ form = NoForm

SpecHandle == InitHandle /\ [][HandleNext]_vars

InitWidget ==
    /\ wcfg \in WidgetConfigs
    /\ text = IdleText
    /\ tlast = TextNoLast
    /\ mcfg = wcfg.mesh
    /\ mesh = IF wcfg.kind = "mesh" THEN Mesh_init(wcfg.mesh, ListTiles, <<0, 0>>)
              ELSE IdleMesh
    /\ mlast = MeshNoLast
    /\ widget = [IdleWidget EXCEPT !.kids = ListKids(wcfg)]
    /\ loop = IdleLoop
    /\ ev = NoEvent
    /\ store = IdleStore
    /\ atom = IdleAtom
    /\ term = IdleTerm
    /\ rend = IdleRend
    /\ feed = IdleFeed
    /\ hand = IdleHand
    /\ scan = IdleScan
    /\ past = NoPast
    /\ place = NoPlace
    /\ form = NoForm

SpecWidget == InitWidget /\ [][WidgetNext]_vars

InitParse ==
    /\ scan \in {IdleScan}
                \cup {Scan("init", "", <<>>, FALSE, reads, NoParsed, <<>>) : reads \in ScanReads}
                \cup {Scan("ask", "", <<>>, FALSE, reads, NoParsed, <<>>) : reads \in LocateReads}
    /\ past = NoPast
    /\ place = NoPlace
    /\ hand = IdleHand
    /\ feed = IdleFeed
    /\ rend = IdleRend
    /\ term = IdleTerm
    /\ store = IdleStore
    /\ atom = IdleAtom
    /\ text = IdleText
    /\ tlast = TextNoLast
    /\ mesh = IdleMesh
    /\ mcfg = IdleMeshConfig
    /\ mlast = MeshNoLast
    /\ wcfg = IdleWidgetConfig
    /\ widget = IdleWidget
    /\ loop = IdleLoop
    /\ ev = NoEvent
    /\ form = NoForm

SpecParse == InitParse /\ [][ParseNext]_vars

InitEdit ==
    /\ text \in {t \in EditTexts : PointValid(t.lines, t.point)}
    /\ tlast = TextNoLast
    /\ past = NoPast
    /\ place = NoPlace
    /\ scan = IdleScan
    /\ hand = IdleHand
    /\ feed = IdleFeed
    /\ rend = IdleRend
    /\ term = IdleTerm
    /\ store = IdleStore
    /\ atom = IdleAtom
    /\ mesh = IdleMesh
    /\ mcfg = IdleMeshConfig
    /\ mlast = MeshNoLast
    /\ wcfg = IdleWidgetConfig
    /\ widget = IdleWidget
    /\ loop = IdleLoop
    /\ ev = NoEvent
    /\ form = NoForm

SpecEdit == InitEdit /\ [][EditNext]_vars

InitPlace ==
    /\ place = NoPlace
    /\ rend = IdleRend
    /\ past = NoPast
    /\ scan = IdleScan
    /\ hand = IdleHand
    /\ feed = IdleFeed
    /\ term = IdleTerm
    /\ store = IdleStore
    /\ atom = IdleAtom
    /\ text = IdleText
    /\ tlast = TextNoLast
    /\ mesh = IdleMesh
    /\ mcfg = IdleMeshConfig
    /\ mlast = MeshNoLast
    /\ wcfg = IdleWidgetConfig
    /\ widget = IdleWidget
    /\ loop = IdleLoop
    /\ ev = NoEvent
    /\ form = NoForm

SpecPlace == InitPlace /\ [][PlaceNext]_vars

InitReturn ==
    /\ rend = IdleRend
    /\ place = NoPlace
    /\ past = NoPast
    /\ scan = IdleScan
    /\ hand = IdleHand
    /\ feed = IdleFeed
    /\ term = IdleTerm
    /\ store = IdleStore
    /\ atom = IdleAtom
    /\ text = IdleText
    /\ tlast = TextNoLast
    /\ mesh = IdleMesh
    /\ mcfg = IdleMeshConfig
    /\ mlast = MeshNoLast
    /\ wcfg = IdleWidgetConfig
    /\ widget = IdleWidget
    /\ loop = IdleLoop
    /\ ev = NoEvent
    /\ form = NoForm

SpecReturn == InitReturn /\ [][ReturnNext]_vars

\* the regions of the first tiles do not hold the cursor: their point is not
\* read, and is taken at the origin
InitFormat ==
    /\ \E n \in 1..MaxRegions :
          \E tiles \in [1..n -> Regions], index \in 0..(n - 1) :
              /\ \A k \in 1..n : k # index + 1 => tiles[k].point = <<0, 0>>
              /\ form = Formed("init", tiles, index, <<>>, <<0, 0>>)
    /\ rend = IdleRend
    /\ place = NoPlace
    /\ past = NoPast
    /\ scan = IdleScan
    /\ hand = IdleHand
    /\ feed = IdleFeed
    /\ term = IdleTerm
    /\ store = IdleStore
    /\ atom = IdleAtom
    /\ text = IdleText
    /\ tlast = TextNoLast
    /\ mesh = IdleMesh
    /\ mcfg = IdleMeshConfig
    /\ mlast = MeshNoLast
    /\ wcfg = IdleWidgetConfig
    /\ widget = IdleWidget
    /\ loop = IdleLoop
    /\ ev = NoEvent

SpecFormat == InitFormat /\ [][FormatNext]_vars

(***************************************************************************)
(* C4: starting from a Text whose Point is valid, after any sequence of    *)
(* insert, move_x, move_y, delete (size >= 0) and newline calls, whether   *)
(* they succeed or fail, 0 <= row < len(lines) and                         *)
(* 0 <= col <= len(lines[row]).                                            *)
(***************************************************************************)
C4_PointInBounds == PointValid(text.lines, text.point)

\* a move_y that had to clamp the column to a shorter line
C4_Witness ==
    /\ tlast.ok
    /\ tlast.op = "move_y"
    /\ text.point[2] = Len(text.lines[text.point[1] + 1])
    /\ \E i \in 1..Len(text.lines) : Len(text.lines[i]) > text.point[2]

(***************************************************************************)
(* C3: after construction and after any sequence of Mesh operations        *)
(* (insert, delete, move, search_insert, search_delete), whether each      *)
(* succeeds or fails, the cursor's visible spot is a key of vision and     *)
(* vision[cursor spot] is a key of tiles.                                  *)
(***************************************************************************)
C3_CursorVisible ==
    /\ HasKey(mesh.vision, mesh.point)
    /\ Lookup(mesh.vision, mesh.point) \in mesh.tiles

(***************************************************************************)
(* C5: whenever a Mesh operation triggered by an event (move,              *)
(* search_insert, search_delete) fails with a MutateError, the state of    *)
(* the Mesh after the failure (tiles, vision, cursor, search text) is      *)
(* identical to its state before the event, in every configuration.        *)
(***************************************************************************)
MutateErrors ==
    {"insufficient_space", "searching", "invalid_search_argument",
     "inconsequential_search_argument"}

C5_FailureKeepsState ==
    [][(/\ mlast'.op \in {"move", "search_insert", "search_delete"}
        /\ mlast'.err \in MutateErrors)
       => Mesh_get_state(mesh') = Mesh_get_state(mesh)]_vars

(***************************************************************************)
(* C1: when handling one event in start()'s loop ends in Abort (raised by  *)
(* a control, a hook or validate), the widget's own Mutate state (Text:    *)
(* lines and point; Mesh: tile keys, vision, cursor and search text)       *)
(* immediately afterwards equals the state captured before that event was  *)
(* dispatched, and the loop continues with the next event instead of       *)
(* ending.                                                                 *)
(***************************************************************************)
C1_AbortRestores ==
    [][(loop.pc = "listening" /\ ev'.caught = "Abort")
          => /\ Mutate_get_state(wcfg', TheWidget') = Mutate_get_state(wcfg, TheWidget)
             /\ loop'.pc = "listening"]_vars

\* an Abort after the event had already changed the mutate
C1_Witness ==
    /\ ev.caught = "Abort"
    /\ ev.dirty
    /\ loop.pc = "listening"

(***************************************************************************)
(* C2: every Terminate that finalizes a widget constructed with a validate *)
(* callback, whether raised by the widget's own control or propagated from *)
(* a focused child of a compound mesh widget, has first triggered that     *)
(* widget's validate(candidate_result), and validate returned without      *)
(* raising Abort; start() never returns a result that the widget's         *)
(* validate rejected or never saw.                                         *)
(***************************************************************************)
C2_ValidatedBeforeFinal ==
    (loop.pc \in {"terminated", "returned"} /\ wcfg.validate # "none")
        => ev.checked

(***************************************************************************)
(* C6: all draws against one terminal are mutually exclusive: at no time   *)
(* are two Screen.print operations (the main thread's redraw of a widget   *)
(* and the periodic redraw of an Interface) both inside their              *)
(* back/sketch/draw section.                                               *)
(***************************************************************************)
C6_MutualExclusion ==
    \A p \in Printers, q \in Printers : (p # q /\ InSection(p)) => ~InSection(q)

(***************************************************************************)
(* C7: for any properly nested sequence of enter/leave on an Atomic (the   *)
(* cursor-hide counter, the raw-mode counter), issued from one or several  *)
(* threads, the enter function runs only on the 0-to-1 transition and the  *)
(* leave function only on the 1-to-0 transition, so that, between calls,   *)
(* the resource is held exactly while the count is positive.               *)
(***************************************************************************)
C7_RefCounted ==
    /\ atom.ran.fn = "enter" => atom.ran.at = 0
    /\ atom.ran.fn = "leave" => atom.ran.at = 1
    /\ atom.lock = 0 => (atom.held <=> atom.size > 0)

\* two threads inside the scope at once, one of them nested
C7_Witness ==
    /\ atom.lock = 0
    /\ atom.held
    /\ atom.size > 2
    /\ \A t \in Threads : atom.th[t].depth > 0

(***************************************************************************)
(* C8, as stated: start(widget) never lets a Terminate reach its caller:   *)
(* every Terminate ends the event loop and makes start return the resolved *)
(* result, whereas an Escape raised by the widget propagates out of start  *)
(* and no result is returned.                                              *)
(***************************************************************************)
C8_EveryTerminateEnds ==
    /\ loop.pc = "raised" => ev.out # "Terminate"
    /\ ev.exc = "Terminate" =>
          /\ loop.pc \in {"terminated", "returned"}
          /\ loop.result = Widget_resolve(wcfg, TheWidget).value
    /\ ev.out = "Escape" =>
          /\ loop.pc \in {"failing", "raised"}
          /\ loop.result = NoValue

(***************************************************************************)
(* C8, amended: start(widget) never lets a Terminate reach its caller:     *)
(* every Terminate that leaves widget.invoke, and after which              *)
(* widget.resolve() does not itself raise, ends the event loop and makes   *)
(* start return the resolved result, whereas an Escape raised by the       *)
(* widget propagates out of start and no result is returned.               *)
(***************************************************************************)
C8_TerminateEndsWhenResolved ==
    /\ loop.pc = "raised" => ev.out # "Terminate"
    /\ (ev.exc = "Terminate" /\ ev.caught = "Terminate") =>
          /\ loop.pc \in {"terminated", "returned"}
          /\ loop.result = Widget_resolve(wcfg, TheWidget).value
    /\ ev.out = "Escape" =>
          /\ loop.pc \in {"failing", "raised"}
          /\ loop.result = NoValue

\* start has returned the value a Terminate resolved to
C8_Witness ==
    /\ loop.pc = "returned"
    /\ ev.exc = "Terminate"
    /\ loop.result # NoValue

(***************************************************************************)
(* C9: whenever the event loop inside start() exits by an exception        *)
(* (including Escape), a terminal clear is issued before the exception is  *)
(* re-raised, and when the exception reaches the caller the terminal is    *)
(* not left in raw mode or with a hidden cursor: the raw-mode and          *)
(* cursor-hide counts are back to their values at entry.                   *)
(***************************************************************************)
C9_ClearedAndRestored ==
    loop.pc = "raised" =>
        /\ loop.cleared
        /\ loop.raw = loop.raw0
        /\ loop.hidden = loop.hidden0

\* an Escape has reached the caller of start
C9_Witness ==
    /\ loop.pc = "raised"
    /\ ev.out = "Escape"

(***************************************************************************)
(* C10: a state returned by get_state() is a deep, independent copy: no    *)
(* later operation on the Mutate, including operations performed after a   *)
(* set_state() of that same state, changes the captured state, so          *)
(* set_state(s) restores the state as of the get_state() call every time   *)
(* it is applied.                                                          *)
(***************************************************************************)
C10_StateIndependent == store.has => store.state = store.taken

(***************************************************************************)
(* C11: a search keystroke (search_insert or search_delete) that is        *)
(* rejected with InvalidSearchArgument (no tile matches) or                *)
(* InconsequentialSearchArgument (the set of visible real spots would be   *)
(* unchanged) leaves the search text, the search cursor, vision, tiles and *)
(* the mesh cursor exactly as they were before the keystroke.              *)
(***************************************************************************)
C11_RejectedSearchKeepsState ==
    [][(/\ mlast'.op \in {"search_insert", "search_delete"}
        /\ mlast'.err \in {"invalid_search_argument",
                           "inconsequential_search_argument"})
       => /\ mesh'.search = mesh.search
          /\ mesh'.vision = mesh.vision
          /\ mesh'.tiles = mesh.tiles
          /\ mesh'.point = mesh.point]_vars

\* a keystroke rejected while a filter hides some of the tiles
C11_Witness ==
    /\ mlast.op \in {"search_insert", "search_delete"}
    /\ mlast.err \in {"invalid_search_argument", "inconsequential_search_argument"}
    /\ search_line(mesh) # <<>>
    /\ Values(mesh.vision) # mesh.tiles

(***************************************************************************)
(* C12: whenever the Mesh search argument becomes empty again, vision      *)
(* becomes the identity map over all current tiles (every tile spot maps   *)
(* to itself and nothing else is present), whatever filter was active      *)
(* before.                                                                 *)
(***************************************************************************)
C12_EmptySearchIdentity ==
    [][(search_line(mesh) # <<>> /\ search_line(mesh') = <<>>)
          => mesh'.vision = Identity(mesh'.tiles)]_vars

\* the last rune of the argument was deleted, and several tiles are back
C12_Witness ==
    /\ mlast.op = "search_delete"
    /\ mlast.ok
    /\ search_line(mesh) = <<>>
    /\ Cardinality(mesh.tiles) > 1
    /\ mesh.vision = Identity(mesh.tiles)

(***************************************************************************)
(* C13: a move of a rigid Mesh either puts the cursor on a spot that lies  *)
(* less than 90 degrees away from the requested direction, seen from the   *)
(* spot the cursor was on, or fails with insufficient_space.               *)
(***************************************************************************)
C13_RigidMoveInWindow ==
    [][\A direction \in Directions :
          (/\ mcfg.rigid
           /\ mlast'.op = "move"
           /\ \E r \in Mesh_move(mesh, mcfg, direction) :
                 r.m = mesh' /\ r.ok = mlast'.ok /\ r.err = mlast'.err)
          => LET dy == mesh'.point[1] - mesh.point[1]
                 dx == mesh'.point[2] - mesh.point[2]
             IN  \/ ~mlast'.ok /\ mlast'.err = "insufficient_space"
                 \/ /\ mlast'.ok
                    /\ CASE direction = 0   -> dx > 0
                         [] direction = 180 -> dx < 0
                         [] direction = 90  -> dy > 0
                         [] OTHER           -> dy < 0]_vars

\* a rigid mesh whose cursor went to another row while a filter shows a
\* part of its tiles only
C13_Witness ==
    /\ mcfg.rigid
    /\ mlast.op = "move"
    /\ mlast.ok
    /\ mesh.point[1] = 1
    /\ search_line(mesh) # <<>>
    /\ Cardinality(Keys(mesh.vision)) > 1

(***************************************************************************)
(* C14: a move that creates no tile puts the cursor on the visible spot,   *)
(* among those less than 90 degrees away from the direction, whose         *)
(* distance to the line of the direction is least and, among these, whose  *)
(* distance to the cursor is least.                                        *)
(***************************************************************************)
C14_MoveLandsOnNearestToRay ==
    [][\A direction \in Directions :
          LET Toward(q) ==
                  LET dy == q[1] - mesh.point[1]
                      dx == q[2] - mesh.point[2]
                  IN  CASE direction = 0   -> dx > 0
                        [] direction = 180 -> dx < 0
                        [] direction = 90  -> dy > 0
                        [] OTHER           -> dy < 0
              Off(q) == IF direction \in {0, 180} THEN Abs(q[1] - mesh.point[1])
                        ELSE Abs(q[2] - mesh.point[2])
              Far(q) == (q[1] - mesh.point[1]) * (q[1] - mesh.point[1])
                            + (q[2] - mesh.point[2]) * (q[2] - mesh.point[2])
              seen == {q \in Keys(mesh.vision) : Scout(mcfg, q) /\ Toward(q)}
          IN  (/\ mlast'.op = "move"
               /\ mesh'.tiles = mesh.tiles
               /\ mesh'.vision = mesh.vision
               /\ seen # {}
               /\ \E r \in Mesh_move(mesh, mcfg, direction) :
                     r.m = mesh' /\ r.ok = mlast'.ok /\ r.err = mlast'.err)
              => /\ mlast'.ok
                 /\ mesh'.point \in seen
                 /\ \A q \in seen :
                       \/ Off(mesh'.point) < Off(q)
                       \/ Off(mesh'.point) = Off(q) /\ Far(mesh'.point) <= Far(q)]_vars

(***************************************************************************)
(* C15: a draw whose lines take more rows than there are from the row it   *)
(* starts on to the last row of the terminal moves the remembered row of   *)
(* every other Render up by the number of the rows that are missing; a     *)
(* draw whose lines fit changes the remembered row of no other Render.     *)
(***************************************************************************)
C15_OverflowRebasesOthers ==
    [][rend'.last.op = "draw"
          => LET left == (MaxY - rend'.last.cur_y) + 1
                 over == IF rend'.last.tot_y > left
                         THEN rend'.last.tot_y - left ELSE 0
             IN  \A o \in Renders \ {rend'.last.r} :
                     IF rend.memory[o] = None THEN rend'.memory[o] = None
                     ELSE rend'.memory[o] = <<rend.memory[o][1] - over,
                                              rend.memory[o][2]>>]_vars

\* a draw ran over the last row while every other Render remembered a row,
\* and the row of one of them is now above the terminal
C15_Witness ==
    /\ rend.last.op = "draw"
    /\ rend.last.tot_y > (MaxY - rend.last.cur_y) + 1
    /\ \A o \in Renders \ {rend.last.r} : rend.memory[o] # None
    /\ \E o \in Renders \ {rend.last.r} : rend.memory[o][1] < 1

(***************************************************************************)
(* C20: a token, once its mimic has taken its place, makes at most one     *)
(* callback: a Control 0x7F delete_left, 0x08 delete_right, 0x0D enter,    *)
(* 0x09 indent; an Escape without a rune escape; a Sequence that ends in   *)
(* A, B, C or D arrow_up, arrow_down, arrow_right or arrow_left; a Text    *)
(* insert, with the token as it was read; every other Control, Escape or   *)
(* Sequence makes no callback.                                             *)
(***************************************************************************)
C20_TokenToEvent ==
    feed.info # None
        => LET info == Source_process_mimic(feed.info)
               name == CASE info.type = "control" /\ info.rune = "DEL" -> "delete_left"
                         [] info.type = "control" /\ info.rune = "BS" -> "delete_right"
                         [] info.type = "control" /\ info.rune = "CR" -> "enter"
                         [] info.type = "control" /\ info.rune = "HT" -> "indent"
                         [] info.type = "escape" /\ info.rune = "" -> "escape"
                         [] info.type = "sequence" /\ info.rune = "A" -> "arrow_up"
                         [] info.type = "sequence" /\ info.rune = "B" -> "arrow_down"
                         [] info.type = "sequence" /\ info.rune = "C" -> "arrow_right"
                         [] info.type = "sequence" /\ info.rune = "D" -> "arrow_left"
                         [] info.type = "text" -> "insert"
                         [] OTHER -> "none"
           IN  /\ Len(feed.sent) <= 1
               /\ name = "none" => feed.sent = <<>>
               /\ name # "none" => feed.sent = << <<name, info>> >>
               /\ info.type = "text" => feed.sent = << <<"insert", feed.info>> >>

\* a sequence that ends in ~ was read, and its one callback was made for
\* the Control 0x08 that stands for it
C20_Witness ==
    /\ feed.info # None
    /\ feed.info.type = "sequence"
    /\ feed.info.rune = "~"
    /\ feed.sent = << <<"delete_right", Token("control", "BS", <<>>)>> >>
    /\ feed.calls = 1

(***************************************************************************)
(* C16: the invoke of a registered control calls the enter hook, then the  *)
(* function of the control, then the leave hook, in this order and none    *)
(* twice, and all three when no call raises; when the enter hook raises    *)
(* Abort the invoke returns, only the enter hook was called and the mutate *)
(* is as it was.                                                           *)
(***************************************************************************)
C16_EnterMutationLeave ==
    [][hand'.event \in Controls(wcfg)
          => /\ hand'.calls = SubSeq(<<"enter", "function", "leave">>, 1, Len(hand'.calls))
             /\ hand'.calls # <<>>
             /\ (hand'.exc = "none" /\ hand'.enter # "HandleAbort")
                   => hand'.calls = <<"enter", "function", "leave">>
             /\ hand'.enter = "HandleAbort"
                   => /\ hand'.exc = "none"
                      /\ hand'.calls = <<"enter">>
                      /\ text' = text
                      /\ mesh' = mesh]_vars

\* the enter hook vetoed a delete_left that would have removed a rune
C16_Witness ==
    /\ hand.event = "delete_left"
    /\ hand.enter = "HandleAbort"
    /\ hand.exc = "none"
    /\ hand.calls = <<"enter">>
    /\ wcfg.kind = "text"
    /\ text.point[2] > 0

(***************************************************************************)
(* C17: a mesh widget whose focus is a bool.  Blurred, an indent event     *)
(* gives it the focus and leaves the mesh as it was.  Focused, every event *)
(* but its own escape goes to the tile the cursor is on and the cursor of  *)
(* the mesh stays; when that tile raises Terminate the widget loses the    *)
(* focus, and the loop goes on without a result.                           *)
(***************************************************************************)
C17_BoolFocusDelegates ==
    [][(loop.pc = "listening" /\ wcfg.kind = "mesh" /\ wcfg.focus = "bool")
          => LET event == ev'.event
                 spot == Lookup(mesh.vision, mesh.point)
                 sent == {Tile_invoke(event, rune, widget.kids[spot]) : rune \in KeyRunes}
             IN  /\ (~widget.focus /\ event = "indent")
                       => widget'.focus /\ mesh' = mesh /\ widget'.kids = widget.kids
                 /\ (widget.focus /\ event # "escape")
                       => /\ mesh'.point = mesh.point
                          /\ \E k \in sent :
                                /\ widget'.kids = [widget.kids EXCEPT ![spot] = k.m]
                                /\ k.exc = "Terminate"
                                      => /\ ~widget'.focus
                                         /\ loop'.pc = "listening"
                                         /\ loop'.result = NoValue
                                         /\ ~ev'.checked
                                         /\ widget'.product = NoValue]_vars

\* the tile on the second row took a rune while the widget was focused, and
\* its Terminate took the focus away
C17_Witness ==
    /\ wcfg.kind = "mesh"
    /\ wcfg.focus = "bool"
    /\ ev.event = "enter"
    /\ ev.exc = "none"
    /\ ~widget.focus
    /\ loop.pc = "listening"
    /\ mesh.point = <<1, 0>>
    /\ widget.kids[<<1, 0>>].lines # << <<>> >>

(***************************************************************************)
(* C18: whatever was invoked since a result was computed, resolve() gives  *)
(* the value that the state of the widget produces now.                    *)
(***************************************************************************)
C18_ResolveFollowsState ==
    Widget_resolve(wcfg, TheWidget) = Widget_produce(wcfg, TheWidget)

C21_EmptyReadTolerated ==
    scan.op = "parse" =>
        /\ scan.out.exc = "none"
        /\ scan.from \in {<< <<"ESC">> >>, << <<"ESC">>, <<>> >>}
               => scan.out.code = Token("escape", "", <<>>)

(***************************************************************************)
(* C22, as stated: for every code and every argument list, parsing the     *)
(* text of get_control(code, *args) gives a Sequence whose rune is code    *)
(* and whose args are the given arguments rendered as strings, in the same *)
(* order and number.                                                       *)
(***************************************************************************)
C22_ControlRoundTrip ==
    (scan.op = "parse" /\ scan.code # "" /\ ~scan.private) =>
        /\ scan.out.exc = "none"
        /\ scan.out.code = Token("sequence", scan.code,
                                 [i \in 1..Len(scan.args) |-> join(str_arg(scan.args[i]))])

(***************************************************************************)
(* C22, amended: for every final code and every list of arguments that are *)
(* non-negative integers or None, parsing the text of                      *)
(* get_control(code, *args) gives a Sequence whose rune is code; its args  *)
(* are the given arguments rendered as strings, in the same order and      *)
(* number, when none of them is None.  A None is rendered as '' and read   *)
(* back as '0', or not at all when it is the last argument.                *)
(***************************************************************************)
C22_ControlRoundTripOfNumbers ==
    LET rendered == [i \in 1..Len(scan.args) |-> join(str_arg(scan.args[i]))]
        padded == [i \in 1..Len(scan.args) |-> IF rendered[i] = "" THEN "0" ELSE rendered[i]]
        back == IF rendered # <<>> /\ rendered[Len(rendered)] = ""
                THEN SubSeq(padded, 1, Len(padded) - 1) ELSE padded
    IN  (/\ scan.op = "parse" /\ scan.code # "" /\ ~scan.private
         /\ \A i \in 1..Len(scan.args) : scan.args[i] = None \/ scan.args[i][1] >= 0) =>
            /\ scan.out.exc = "none"
            /\ scan.out.code = Token("sequence", scan.code, back)
            /\ (\A i \in 1..Len(scan.args) : scan.args[i] # None) => back = rendered

\* get_control('H', 5, 13) read back as Sequence('H', ('5', '13'))
C22_Witness ==
    /\ scan.op = "parse"
    /\ scan.code = "H" /\ scan.args = << <<5>>, <<13>> >> /\ ~scan.private
    /\ scan.from = << <<"ESC", "[", "5", ";", "1", "3", "H">> >>
    /\ scan.out.code = Token("sequence", "H", <<"5", "13">>)

(***************************************************************************)
(* C26: the characters CSI 1;3 C (Alt+Right) and the characters ESC f,     *)
(* read by a Source in one piece or one by one, are translated, once the   *)
(* mimic has taken the place of the token, into the same event: the one    *)
(* callback arrow_right with the Sequence C of args 1 and 3.               *)
(***************************************************************************)
C26_AltRightBothWays ==
    LET sequence == <<"ESC", "[", "1", ";", "3", "C">>
        escape == <<"ESC", "f">>
        whole == {<<sequence>>, <<escape>>}
        apart == {[i \in 1..Len(t) |-> <<t[i]>>] : t \in {sequence, escape}}
    IN  (scan.op = "advance" /\ scan.from \in whole \cup apart) =>
            /\ scan.out.exc = "none"
            /\ scan.sent = << <<"arrow_right", Token("sequence", "C", <<"1", "3">>)>> >>

\* ESC f has been read and has made the callback of Alt+Right
C26_Witness ==
    /\ scan.op = "advance"
    /\ scan.from = << <<"ESC", "f">> >>
    /\ scan.out.code = Token("escape", "f", <<>>)
    /\ scan.sent = << <<"arrow_right", Token("sequence", "C", <<"1", "3">>)>> >>

(***************************************************************************)
(* C23: for any Text whose Point is valid and any d, when move_x(d)        *)
(* succeeds and the move_x(-d) that follows it succeeds, the Point after   *)
(* both is the Point before both, and the lines are what they were.        *)
(***************************************************************************)
C23_MoveXThereAndBack ==
    (/\ Len(past) = 2
     /\ past[1].op = "move_x" /\ past[1].ok
     /\ past[2].op = "move_x" /\ past[2].ok
     /\ past[2].size = -past[1].size) =>
        /\ text.point = past[1].text.point
        /\ text.lines = past[1].text.lines

\* move_x(2) from the end of a line to column 1 of the next, and move_x(-2) back
C23_Witness ==
    /\ Len(past) = 2
    /\ past[1].op = "move_x" /\ past[1].ok /\ past[1].size = 2
    /\ past[2].op = "move_x" /\ past[2].ok /\ past[2].size = -2
    /\ past[1].text.point = <<0, 1>> /\ Len(past[1].text.lines[1]) = 1
    /\ past[2].text.point = <<1, 1>>
    /\ text.point = <<0, 1>>

(***************************************************************************)
(* C24: Text.delete(size), size >= 0, fails with the Error                 *)
(* insufficient_x_space exactly when the flat index of the cursor plus     *)
(* size exceeds the flat length of the buffer (its runes and one for each  *)
(* line boundary), and a delete that fails leaves lines and Point as they  *)
(* were.                                                                   *)
(***************************************************************************)
C24_DeleteFailsPastTheEnd ==
    \A i \in 1..Len(past) :
        LET before == past[i].text
            after == IF i = Len(past) THEN TextValue(text.lines, text.point) ELSE past[i + 1].text
            index == SumLen(SubSeq(before.lines, 1, before.point[1])) + before.point[1]
                         + before.point[2]
            total == SumLen(before.lines) + Len(before.lines) - 1
        IN  past[i].op = "delete" =>
                /\ ~past[i].ok <=> index + past[i].size > total
                /\ ~past[i].ok => past[i].err = "insufficient_x_space" /\ after = before

\* delete(1) at the end of the only line has failed
C24_Witness ==
    /\ Len(past) = 1
    /\ past[1].op = "delete" /\ past[1].size = 1 /\ ~past[1].ok
    /\ past[1].text = TextValue(<< <<"a", "a", "a">> >>, <<0, 3>>)
    /\ text = TextValue(<< <<"a", "a", "a">> >>, <<0, 3>>)

C27_WrapOneToOne ==
    place.op = "wrap" =>
        LET limit == place.limit
            sizes == place.sizes
            row == place.point[1]
            col == place.point[2]
            wrap_rows(n) == (n \div limit) + 1
            RECURSIVE Prior(_)
            Prior(i) == IF i = 0 THEN 0 ELSE wrap_rows(sizes[i]) + Prior(i - 1)
        IN  /\ place.out = <<Prior(row) + wrap_rows(col) - 1,
                             col - (wrap_rows(col) - 1) * limit>>
            /\ \A other \in PointsAmong(sizes) \ {place.point} :
                   get_point_wrap(limit, sizes, other[1], other[2]) # place.out

\* limit 2, lines of 3 and 4 runes, the point (1, 2): two rows for the line
\* before, one for the two runes before the point
C27_Witness ==
    /\ place.op = "wrap"
    /\ place.limit = 2 /\ place.sizes = <<3, 4>> /\ place.point = <<1, 2>>
    /\ place.out = <<3, 0>>

(***************************************************************************)
(* C28: a draw given a point (r, c), begun at the terminal position        *)
(* (y0, x0) on a terminal MaxX cells wide, ends with a cursor move whose   *)
(* column is within 1..MaxX and which, the lines fitting in the rows left, *)
(* goes to the cell where rune c of line r was printed: line 0 starts at   *)
(* column x0, every other line at column 1, and a rune past the last       *)
(* column goes to column 1 of the next row.  No rune is wide.              *)
(***************************************************************************)
C28_MoveToPrintedCell ==
    (place.op = "draw" /\ place.point # None /\ place.wide = 0) =>
        LET sizes == place.sizes
            y0 == place.cur[1]
            x0 == place.cur[2]
            r == place.point[1]
            c == place.point[2]
            start(i) == IF i = 1 THEN x0 ELSE 1
            rows(i) == IF sizes[i] = 0 THEN 1
                       ELSE ((start(i) + sizes[i] - 2) \div MaxX) + 1
            RECURSIVE Prior(_)
            Prior(i) == IF i = 0 THEN 0 ELSE rows(i) + Prior(i - 1)
            cell == start(r + 1) + c
        IN  /\ place.out[2] \in 1..MaxX
            /\ rend.last.tot_y <= (MaxY - y0) + 1 =>
                   place.out = <<y0 + Prior(r) + ((cell - 1) \div MaxX),
                                 ((cell - 1) % MaxX) + 1>>

(***************************************************************************)
(* C29: a draw with learn remembers the row and the column it began at;    *)
(* until the back of its Render only the rows that draws scroll off change *)
(* what is remembered; back moves the cursor there and forgets it, and a   *)
(* back with nothing remembered moves no cursor.                           *)
(***************************************************************************)
C29_BackToWhereDrawBegan ==
    [][LET r == place'.r
           left == (MaxY - place'.cur[1]) + 1
           over == IF rend'.last.tot_y > left THEN rend'.last.tot_y - left ELSE 0
       IN  /\ (place'.op = "draw" /\ place'.learn) =>
                  rend'.memory[r] = <<place'.cur[1] - over, place'.cur[2]>>
           /\ place'.op = "draw" =>
                  \A o \in Renders :
                      (o # r \/ ~place'.learn) =>
                          rend'.memory[o] =
                              IF rend.memory[o] = None THEN None
                              ELSE <<rend.memory[o][1] - over, rend.memory[o][2]>>
           /\ place'.op = "back" =>
                  /\ place'.out = rend.memory[r]
                  /\ rend'.memory = [rend.memory EXCEPT ![r] = None]]_vars

\* what a print has done besides hiding and showing the cursor
PrintSteps(p) ==
    LET Step(e) == e \notin {"hide", "show"}
    IN  SelectSeq(term.log[p], Step)

\* C30: within one Screen.print with return-first requested, Render.back()
\* is called before sketch(), sketch() is called exactly once and before the
\* draw emits any line, the cursor is hidden from the first of these steps
\* to the last, a hide command is the first thing the print sends and a show
\* command (sent only when this print leaves the outermost hide) comes after
\* the draw
C30_PrintOrder ==
    \A p \in Printers :
        term.re[p] =>
            /\ (term.pc[p] \in {"locked", "back"}) => PrintSteps(p) = <<>>
            /\ (term.pc[p] = "sketch") => PrintSteps(p) = <<"back">>
            /\ (term.pc[p] \in {"draw", "drawing"}) => PrintSteps(p) = <<"back", "sketch">>
            /\ (term.pc[p] \in {"show", "unlock"}) =>
                   PrintSteps(p) = <<"back", "sketch", "draw">>
            /\ (InSection(p) \/ term.pc[p] = "show") =>
                   /\ term.hidden.held
                   /\ term.hidden.size >= 1
            /\ \A i \in 1..Len(term.log[p]) :
                   /\ (term.log[p][i] = "hide") => i = 1
                   /\ (term.log[p][i] = "show") =>
                          /\ i = Len(term.log[p])
                          /\ term.pc[p] = "unlock"

\* a print with return-first that hid the cursor itself, went back, sketched,
\* drew and showed the cursor again, while another printer was printing
C30_Witness ==
    \E p, q \in Printers :
        /\ p # q
        /\ term.re[p]
        /\ term.pc[p] = "unlock"
        /\ term.log[p] = <<"hide", "back", "sketch", "draw", "show">>
        /\ term.pc[q] = "locked"

\* q lies less than 90 degrees away from the direction, seen from origin
Toward(origin, direction, q) ==
    LET dy == q[1] - origin[1]
        dx == q[2] - origin[2]
    IN  CASE direction = 0   -> dx > 0
          [] direction = 180 -> dx < 0
          [] direction = 90  -> dy > 0
          [] OTHER           -> dy < 0

\* the direction opposite to one of the four
Opposite(direction) ==
    CASE direction = 0   -> 180
      [] direction = 180 -> 0
      [] direction = 90  -> -90
      [] OTHER           -> 90

(***************************************************************************)
(* C31: when a move creates no tile and no visible spot lies less than 90  *)
(* degrees away from the requested direction, a rigid Mesh fails with      *)
(* insufficient_space, and a Mesh that is not rigid succeeds and, when     *)
(* visible spots lie in the opposite direction, puts the cursor on the one *)
(* of them that is farthest from the spot the cursor was on.               *)
(***************************************************************************)
C31_WrapsToFarthest ==
    [][\A direction \in Directions :
          LET seen == {q \in Keys(mesh.vision) : Scout(mcfg, q)}
              ahead == {q \in seen : Toward(mesh.point, direction, q)}
              behind == {q \in seen : Toward(mesh.point, Opposite(direction), q)}
          IN  (/\ mlast'.op = "move"
               /\ mesh'.tiles = mesh.tiles
               /\ mesh'.vision = mesh.vision
               /\ ahead = {}
               /\ \E r \in Mesh_move(mesh, mcfg, direction) :
                     r.m = mesh' /\ r.ok = mlast'.ok /\ r.err = mlast'.err)
              => IF mcfg.rigid
                 THEN ~mlast'.ok /\ mlast'.err = "insufficient_space"
                 ELSE /\ mlast'.ok
                      /\ behind # {} =>
                            /\ mesh'.point \in behind
                            /\ \A q \in behind :
                                  PointDistanceSquared(mesh.point, q)
                                      <= PointDistanceSquared(mesh.point, mesh'.point)]_vars

(***************************************************************************)
(* C32: in clean mode an insert or a move either creates a tile, after     *)
(* which that tile is the only tile and the only entry of vision, or       *)
(* creates nothing (the tile exists already, or the creator declines) and  *)
(* leaves tiles and vision as they were.                                   *)
(***************************************************************************)
C32_CleanClearsOnCreation ==
    [][(mcfg.clean /\ mlast'.op \in {"insert", "move"})
          => \/ \E spot \in mesh'.tiles \ mesh.tiles :
                   /\ mesh'.tiles = {spot}
                   /\ mesh'.vision = {<<spot, spot>>}
             \/ /\ mesh'.tiles = mesh.tiles
                /\ mesh'.vision = mesh.vision]_vars

(***************************************************************************)
(* C33: when the handling of one event in a list of widgets ends in Abort, *)
(* the state of the list (tiles, vision, cursor, search text) and the      *)
(* state of every tile of it (its lines and its point) are afterwards what *)
(* they were before the event.                                             *)
(***************************************************************************)
C33_AbortRestoresTiles ==
    [][(loop.pc = "listening" /\ wcfg.kind = "mesh" /\ ev'.caught = "Abort")
          => /\ Mesh_get_state(mesh') = Mesh_get_state(mesh)
             /\ \A spot \in ListTiles :
                   /\ widget'.kids[spot].lines = widget.kids[spot].lines
                   /\ widget'.kids[spot].point = widget.kids[spot].point]_vars

(***************************************************************************)
(* C34: a Text.delete(size), size >= 0, that succeeds takes out of the     *)
(* text, read as one row of runes with a line boundary between the lines,  *)
(* exactly the size units that follow the cursor: what is before the       *)
(* cursor and what is beyond the units stays, the lines on both sides of a *)
(* removed boundary become one line, and the Point is what it was.         *)
(***************************************************************************)
C34_DeleteTakesTheSpan ==
    \A i \in 1..Len(past) :
        LET before == past[i].text
            after == IF i = Len(past) THEN TextValue(text.lines, text.point)
                     ELSE past[i + 1].text
            y == before.point[1]
            x == before.point[2]
            flat == join_lines(before.lines)
            ci == Len(join_lines(SubSeq(before.lines, 1, y)
                                     \o <<SubSeq(before.lines[y + 1], 1, x)>>))
        IN  (past[i].op = "delete" /\ past[i].ok) =>
                /\ after.point = before.point
                /\ ci + past[i].size <= Len(flat)
                /\ join_lines(after.lines)
                       = SubSeq(flat, 1, ci) \o SubSeq(flat, ci + past[i].size + 1, Len(flat))
                /\ Len(after.lines)
                       = Len(before.lines)
                             - Cardinality({j \in (ci + 1)..(ci + past[i].size) : flat[j] = "\n"})

\* delete(2) after the first rune of [a, X], [a] has taken the X and the
\* boundary: one line [a, a], the cursor still after its first rune
C34_Witness ==
    /\ Len(past) = 2
    /\ past[2].op = "delete" /\ past[2].ok /\ past[2].size = 2
    /\ past[2].text = TextValue(<< <<"a", "X">>, <<"a">> >>, <<0, 1>>)
    /\ text = TextValue(<< <<"a", "a">> >>, <<0, 1>>)

\* what Enter does to a Text widget whose callback lets the event through:
\* submits says when the claim has it signal Terminate
EnterOutcome(submits) ==
    LET y == text.point[1]
        x == text.point[2]
        n == Len(text.lines)
        flat == join_lines(text.lines)
        ci == Len(join_lines(SubSeq(text.lines, 1, y) \o <<SubSeq(text.lines[y + 1], 1, x)>>))
    IN  IF ~wcfg.multi
        THEN /\ hand'.exc = "Terminate"
             /\ text' = text
        ELSE IF submits
        THEN /\ hand'.exc = "Terminate"
             /\ text'.lines = SubSeq(text.lines, 1, n - 2)
        ELSE /\ hand'.exc # "Terminate" \/ hand'.calls = <<"enter", "function", "leave">>
             /\ Len(text'.lines) = n + 1
             /\ join_lines(text'.lines)
                    = SubSeq(flat, 1, ci) \o <<"\n">> \o SubSeq(flat, ci + 1, Len(flat))
             /\ text'.point = <<y + 1, 0>>

C36_BlockThenPollThenBlock ==
    scan.op = "advance" =>
        /\ scan.out.modes # <<>>
        /\ scan.out.modes[1] = "blocking"
        /\ \A i \in 2..Len(scan.out.modes) : scan.out.modes[i] = "poll"
        /\ scan.sent # <<>> => scan.at = "blocking"
        /\ scan.mode = "blocking"

\* an event whose token took three reads, the last two of them polled
C36_Witness ==
    /\ scan.op = "advance"
    /\ scan.out.modes = <<"blocking", "poll", "poll">>
    /\ scan.out.code = Token("sequence", "C", <<>>)
    /\ scan.sent # <<>>
    /\ scan.at = "blocking"

\* the tokens that come on the input, one parse after the other
RECURSIVE parse_all(_)
parse_all(reads) ==
    IF reads = <<>> THEN <<>>
    ELSE LET p == parse(reads)
         IN  IF p.exc # "none" THEN <<>> ELSE <<p.code>> \o parse_all(p.reads)

\* C37: locate() sends CSI 6n and returns the two integer args of the reply,
\* the Sequence whose rune is R, as (row, column); a token that comes on the
\* input before the reply is never taken as the reply.
C37_LocateTakesTheReply ==
    scan.op = "locate" =>
        LET tokens == parse_all(scan.from)
            replies == {i \in 1..Len(tokens) :
                           /\ tokens[i].type = "sequence"
                           /\ tokens[i].rune = "R"
                           /\ Len(tokens[i].args) = 2}
        IN  /\ scan.sent = <<"ESC", "[", "6", "n">>
            /\ replies # {} =>
                 LET reply == tokens[CHOOSE i \in replies : \A j \in replies : i <= j]
                 IN  /\ scan.out.exc = "none"
                     /\ scan.out.code = reply
                     /\ scan.out.point = <<int(reply.args[1]), int(reply.args[2])>>

\* (score, density) pairs as Python compares tuples
ScoreBelow(x, y) == x[1] < y[1] \/ (x[1] = y[1] /\ x[2] < y[2])

\* a search keystroke that was accepted and left an argument to filter by
SearchFiltered ==
    /\ mlast'.op \in {"search_insert", "search_delete"}
    /\ mlast'.ok
    /\ mcfg.score
    /\ search_line(mesh') # <<>>

\* vision' is one-to-one from a compact block of visible spots (rows from 0
\* on, the columns of each row from 0 on) onto the tiles that match, and
\* the cursor is on a visible spot whose tile no other tile outscores
SearchCompacted ==
    LET argument == search_line(mesh')
        vision == mesh'.vision
        matches == {q \in mesh'.tiles : fuzzy(argument, TileLine(q)) # None}
        score(v) == fuzzy(argument, TileLine(Lookup(vision, v)))
    IN  /\ Values(vision) = matches
        /\ Cardinality(Keys(vision)) = Cardinality(vision)
        /\ Cardinality(vision) = Cardinality(matches)
        /\ \A v \in Keys(vision) :
              /\ v[1] = 0 \/ \E w \in Keys(vision) : w[1] = v[1] - 1
              /\ v[2] = 0 \/ <<v[1], v[2] - 1>> \in Keys(vision)
        /\ mesh'.point = <<0, 0>>
        /\ \A v \in Keys(vision) : ~ScoreBelow(score(mesh'.point), score(v))

\* C38 as stated: after an accepted search keystroke vision maps a compact set
\* of consecutive visible spots one-to-one onto the tiles whose score is not
\* none, the scores descending along the rows and, in a row, along the
\* columns, and the cursor is on the top-ranked visible spot.
C38_VisionInScoreOrder ==
    [][SearchFiltered =>
          LET argument == search_line(mesh')
              vision == mesh'.vision
              score(v) == fuzzy(argument, TileLine(Lookup(vision, v)))
          IN  /\ SearchCompacted
              /\ \A v, w \in Keys(vision) :
                    (v[1] < w[1] \/ (v[1] = w[1] /\ v[2] < w[2]))
                        => ~ScoreBelow(score(v), score(w))]_vars

\* C38, amended: the tiles of one row stay in one visible row; the visible
\* rows descend by the score of their best tile, and the scores descend
\* along each row.
C38_VisionRowsInScoreOrder ==
    [][SearchFiltered =>
          LET argument == search_line(mesh')
              vision == mesh'.vision
              score(v) == fuzzy(argument, TileLine(Lookup(vision, v)))
          IN  /\ SearchCompacted
              /\ \A v, w \in Keys(vision) :
                    /\ (v[1] = w[1]) <=> (Lookup(vision, v)[1] = Lookup(vision, w)[1])
                    /\ (v[1] = w[1] /\ v[2] < w[2]) => ~ScoreBelow(score(v), score(w))
                    /\ (v[1] < w[1] /\ v[2] = 0 /\ w[2] = 0)
                           => ~ScoreBelow(score(v), score(w))]_vars

\* a filter that put a lesser tile before a better one of another row
C38_Witness ==
    /\ mlast.op = "search_insert"
    /\ mlast.ok
    /\ search_line(mesh) = <<"a">>
    /\ mesh.tiles = {<<0, 0>>, <<0, 2>>, <<1, 0>>, <<1, 1>>}
    /\ mesh.vision = {<<<<0, 0>>, <<1, 0>>>>, <<<<0, 1>>, <<1, 1>>>>, <<<<1, 0>>, <<0, 0>>>>}
    /\ mesh.point = <<0, 0>>

\* the regions before the one that holds the cursor, merged
RECURSIVE MergedBefore(_, _)
MergedBefore(tiles, count) ==
    IF count = 0 THEN << <<>> >>
    ELSE Line_format_merge(MergedBefore(tiles, count - 1), tiles[count].lines)

\* C39: the Point that Line formatting returns has for row the sum over the
\* preceding regions of (their line count - 1) plus the row of the point of
\* the active region and, when that point lies on the first row of the
\* region, for column the point's column plus the length of the merged row
\* that precedes the region (the point's column otherwise); it addresses in
\* the merged output the place the point addresses in the region.
C39_FormatPoint ==
    form.op = "format" =>
        LET before == MergedBefore(form.tiles, form.index)
            active == form.tiles[form.index + 1]
            row == Len(before) - 1 + active.point[1]
            column == IF active.point[1] = 0
                      THEN Len(before[Len(before)]) + active.point[2]
                      ELSE active.point[2]
        IN  /\ form.point = <<row, column>>
            /\ row < Len(form.lines)
            /\ column <= Len(form.lines[row + 1])

\* C40: when the search argument returns to empty, the mesh cursor is back on
\* the Point it had immediately before the search argument first became
\* non-empty, whatever keystrokes were rejected and whatever moves of the
\* cursor were made before the search started.
C40_CursorBackToOrigin ==
    [][(/\ mlast'.op \in {"search_insert", "search_delete"}
        /\ mlast'.ok
        /\ search_line(mesh) # <<>>
        /\ search_line(mesh') = <<>>)
       => mesh'.point = mlast.origin.point]_vars

====
